---- MODULE Spec2Model ----
(***************************************************************************)
(* A model of js/LDRLoader.js: the LDraw parser with its BFC state, the    *)
(* part type registry and its step rules, the recursive generateThreePart  *)
(* walker, and the vertex baking of LDRMeshCollector.                      *)
(*                                                                         *)
(* Strings the code inspects character by character (identifiers) are      *)
(* sequences of one-character strings; points are triples <<x, y, z>>;     *)
(* 3x3 matrices are 9-tuples in row-major order.                           *)
(***************************************************************************)
EXTENDS Integers, Sequences, FiniteSets, Bags, TLC

VARIABLES
    ldrPartTypes,   \* LDRLoader.ldrPartTypes: id -> part type | TrueMarker
    mainModel,      \* LDRLoader.mainModel
    unloadedFiles,  \* LDRLoader.unloadedFiles
    loadRelatedFilesImmediately, \* LDRLoader.loadRelatedFilesImmediately
    pending,        \* retrievals handed to the FileLoader, not yet delivered
    fileLoader,     \* THREE.FileLoader: the load calls it got (a bag), the
                    \* ones it answered through onError, the number delivered
    LDRStepIdx,     \* THREE.LDRStepIdx
    parse,          \* the activation of LDRLoader.prototype.parse (locals)
    partType,       \* a THREE.LDRPartType driven directly through addStep
    meshCollector,  \* a THREE.LDRMeshCollector
    trace           \* observation of the last operation (history variable)

vars == <<ldrPartTypes, mainModel, unloadedFiles, loadRelatedFilesImmediately,
          pending, fileLoader, LDRStepIdx, parse, partType, meshCollector,
          trace>>

(***************************************************************************)
(* Bounds of the model.                                                    *)
(***************************************************************************)
MaxLines == 3       \* lines consumed by one parse call
MaxAddSteps == 4    \* direct addStep calls on one part type
MaxPrims == 2       \* primitives added to a mesh collector between bakes
MaxBakes == 2       \* bakeVertices calls on one mesh collector
MaxFiles == 3       \* files delivered to the loader before flattening
MaxDepth == 3       \* nesting of generateThreePart calls the call stack holds

(***************************************************************************)
(* Values.                                                                 *)
(***************************************************************************)
\* parseFloat of a token that is no number
NaN == -999999
\* the coordinates of the initial 'prev' of bakeVertices
PrevInit == -123456
\* the edge colour offset
EdgeOffset == 10000

NullID == <<"null">>            \* part.ID === null
\* the property key an identifier is stored under: null becomes "null"
Key(id) == IF id = <<"null">> THEN <<"n", "u", "l", "l">> ELSE id
UndefinedID == <<"undefined">>  \* an unset identifier (mainModel, replacement)
Undefined == [undefined |-> TRUE]
TrueMarker == [marker |-> TRUE] \* ldrPartTypes[id] = true

\* a === b on numbers: NaN equals nothing
NumEq(a, b) == a # NaN /\ b # NaN /\ a = b

Last(s) == s[Len(s)]

EndsWith(s, suffix) ==
    /\ Len(s) >= Len(suffix)
    /\ SubSeq(s, Len(s) - Len(suffix) + 1, Len(s)) = suffix

StartsWith(s, prefix) ==
    /\ Len(s) >= Len(prefix)
    /\ SubSeq(s, 1, Len(prefix)) = prefix

DotDat == <<".", "d", "a", "t">>
DotLdr == <<".", "l", "d", "r">>
Dat == <<"d", "a", "t">>

\* String.prototype.toLowerCase, character by character
LowerChar(c) ==
    CASE c = "A" -> "a" [] c = "B" -> "b" [] c = "D" -> "d" [] c = "L" -> "l"
      [] c = "M" -> "m" [] c = "R" -> "r" [] c = "S" -> "s" [] c = "T" -> "t"
      [] c = "X" -> "x"
      [] OTHER -> c

ToLowerCase(s) == [i \in 1..Len(s) |-> LowerChar(s[i])]

\* String.prototype.replace(pattern, by) with a string pattern: the first
\* occurrence only
RECURSIVE ReplaceFirst(_, _, _)
ReplaceFirst(s, c, by) ==
    IF s = <<>> THEN <<>>
    ELSE IF Head(s) = c THEN <<by>> \o Tail(s)
    ELSE <<Head(s)>> \o ReplaceFirst(Tail(s), c, by)

\* '' + n for a non-negative integer n
DigitChar(d) == CASE d = 0 -> "0" [] d = 1 -> "1" [] d = 2 -> "2" [] d = 3 -> "3"
                  [] d = 4 -> "4" [] d = 5 -> "5" [] d = 6 -> "6" [] d = 7 -> "7"
                  [] d = 8 -> "8" [] OTHER -> "9"

RECURSIVE NumberToString(_)
NumberToString(n) ==
    IF n < 10 THEN <<DigitChar(n)>>
    ELSE NumberToString(n \div 10) \o <<DigitChar(n % 10)>>

(***************************************************************************)
(* LDR.Colors: the colour table (js/colors.js), an external table.         *)
(***************************************************************************)
LDRColors == {0, 1, 4, 16, 24}

(***************************************************************************)
(* THREE.LDRStepRotation                                                   *)
(***************************************************************************)
NullRotation == [isNull |-> TRUE, x |-> 0, y |-> 0, z |-> 0, type |-> ""]

ParseFloat(tok) ==
    CASE tok = "0" -> 0 [] tok = "45" -> 45 [] tok = "90" -> 90 [] OTHER -> NaN

ToUpperCase(tok) ==
    CASE tok = "rel" -> "REL" [] tok = "abs" -> "ABS" [] tok = "add" -> "ADD"
      [] OTHER -> tok

LDRStepRotation(x, y, z, type) ==
    [isNull |-> FALSE, x |-> ParseFloat(x), y |-> ParseFloat(y),
     z |-> ParseFloat(z), type |-> ToUpperCase(type)]

RotationEquals(a, b) ==
    IF a.isNull /\ b.isNull THEN TRUE
    ELSE IF a.isNull # b.isNull THEN FALSE
    ELSE NumEq(a.x, b.x) /\ NumEq(a.y, b.y) /\ NumEq(a.z, b.z) /\ a.type = b.type

(***************************************************************************)
(* THREE.LDRStep                                                           *)
(***************************************************************************)
LDRStep(idx) ==
    [idx |-> idx, empty |-> TRUE, ldrs |-> <<>>, dats |-> <<>>, lines |-> <<>>,
     conditionalLines |-> <<>>, triangles |-> <<>>,
     rotation |-> NullRotation, cull |-> TRUE]

StepAddLDR(step, ldr) ==
    [step EXCEPT !.empty = FALSE, !.ldrs = Append(@, ldr)]

StepAddDAT(step, dat) ==
    [step EXCEPT !.empty = FALSE, !.dats = Append(@, dat)]

StepAddLine(step, c, p1, p2) ==
    [step EXCEPT !.empty = FALSE,
                 !.lines = Append(@, [colorID |-> c, p1 |-> p1, p2 |-> p2])]

StepAddTrianglePoints(step, c, p1, p2, p3) ==
    [step EXCEPT !.empty = FALSE,
                 !.triangles = Append(@, [colorID |-> c, p1 |-> p1, p2 |-> p2,
                                          p3 |-> p3])]

StepAddConditionalLine(step, c, p1, p2, p3, p4) ==
    [step EXCEPT !.empty = FALSE,
                 !.conditionalLines = Append(@, [colorID |-> c, p1 |-> p1,
                                                 p2 |-> p2, p3 |-> p3, p4 |-> p4])]

(***************************************************************************)
(* THREE.LDRPartType                                                       *)
(***************************************************************************)
LDRPartType ==
    [ID |-> NullID, modelDescription |-> Undefined, author |-> Undefined,
     license |-> Undefined, steps |-> <<>>, lastRotation |-> NullRotation,
     replacement |-> UndefinedID, inlined |-> FALSE]

\* addStep without the test for a leading empty step
AddStepKeepingLeadingEmpty(pt, step) ==
    LET sameRotation == RotationEquals(step.rotation, pt.lastRotation) IN
    IF step.empty /\ sameRotation THEN pt
    ELSE IF Len(pt.steps) > 0 /\ Last(pt.steps).empty /\ sameRotation
         THEN [pt EXCEPT !.steps[Len(pt.steps)] = step]
    ELSE [pt EXCEPT !.steps = Append(@, step), !.lastRotation = step.rotation]

\* addStep without the update of lastRotation
AddStepForgettingLastRotation(pt, step) ==
    IF step.empty /\ Len(pt.steps) = 0 THEN pt
    ELSE LET sameRotation == RotationEquals(step.rotation, pt.lastRotation) IN
         IF step.empty /\ sameRotation THEN pt
         ELSE IF Len(pt.steps) > 0 /\ Last(pt.steps).empty /\ sameRotation
              THEN [pt EXCEPT !.steps[Len(pt.steps)] = step]
         ELSE [pt EXCEPT !.steps = Append(@, step)]

\* LDRPartType.addStep
AddStep(pt, step) ==
    IF step.empty /\ Len(pt.steps) = 0 THEN pt
    ELSE LET sameRotation == RotationEquals(step.rotation, pt.lastRotation) IN
         IF step.empty /\ sameRotation THEN pt
         ELSE IF Len(pt.steps) > 0 /\ Last(pt.steps).empty /\ sameRotation
              THEN [pt EXCEPT !.steps[Len(pt.steps)] = step]
         ELSE [pt EXCEPT !.steps = Append(@, step),
                         !.lastRotation = step.rotation]

(***************************************************************************)
(* THREE.LDRPartDescription                                                *)
(***************************************************************************)
LDRPartDescription(colorID, position, rotation, ID, cull, invertCCW) ==
    [colorID |-> colorID, position |-> position, rotation |-> rotation,
     ID |-> ToLowerCase(ID), cull |-> cull, invertCCW |-> invertCCW]

(***************************************************************************)
(* The loader and one running parse call as a record W:                    *)
(*   ldrPartTypes, mainModel, unloadedFiles, pending, LDRStepIdx: as the   *)
(*   variables; p: the locals of parse; out: the callbacks invoked.        *)
(***************************************************************************)
Has(reg, id) == Key(id) \in DOMAIN reg

Put(reg, id, v) ==
    [k \in DOMAIN reg \cup {Key(id)} |-> IF k = Key(id) THEN v ELSE reg[k]]

\* loader.ldrPartTypes[id]
Lookup(reg, id) == IF Has(reg, id) THEN reg[Key(id)] ELSE Undefined

IsPartType(entry) == entry # Undefined /\ entry # TrueMarker

Emit(w, ev) == [w EXCEPT !.out = Append(@, ev)]

\* LDRLoader.prototype.isTopLevelModel
isTopLevelModel(id) == ~EndsWith(id, DotDat)

\* LDRLoader.prototype.idToUrl
idToUrl(id, top) ==
    IF isTopLevelModel(id) THEN id
    ELSE <<"p", "a", "r", "t", "s", "/">> \o ToLowerCase(id)

\* the onLoad event: the callback together with the value unloadedFiles has
\* when it is invoked
OnLoad(w) == [cb |-> "onLoad", unloadedFiles |-> w.unloadedFiles]

\* reportProgress invoking onLoad whatever the counter is
reportProgressWithoutTest(w, id) ==
    LET w1 == Emit(w, [cb |-> "onProgress", id |-> id]) IN
    Emit(w1, OnLoad(w1))

\* reportProgress without the invocation of onLoad
reportProgressWithoutOnLoad(w, id) ==
    Emit(w, [cb |-> "onProgress", id |-> id])

\* LDRLoader.prototype.reportProgress
reportProgress(w, id) ==
    LET w1 == Emit(w, [cb |-> "onProgress", id |-> id]) IN
    IF w1.unloadedFiles = 0 THEN Emit(w1, OnLoad(w1)) ELSE w1

\* load handing the identifier to the FileLoader again as long as no part type
\* is registered for it
loadAgainUntilRegistered(w, id0, top) ==
    LET id == IF ~top THEN ToLowerCase(id0) ELSE id0 IN
    IF IsPartType(Lookup(w.ldrPartTypes, id)) THEN reportProgress(w, id)
    ELSE [w EXCEPT !.ldrPartTypes = Put(@, id, TrueMarker),
                   !.unloadedFiles = @ + 1,
                   !.pending = @ \cup {id},
                   !.fileLoader.loads =
                       @ (+) SetToBag({[id |-> id, url |-> idToUrl(id, top)]})]

\* LDRLoader.prototype.load: the FileLoader gets the url and the callbacks, and
\* answers later
load(w, id0, top) ==
    LET id == IF ~top THEN ToLowerCase(id0) ELSE id0 IN
    IF Has(w.ldrPartTypes, id) THEN reportProgress(w, id)
    ELSE [w EXCEPT !.ldrPartTypes = Put(@, id, TrueMarker),
                   !.unloadedFiles = @ + 1,
                   !.pending = @ \cup {id},
                   !.fileLoader.loads =
                       @ (+) SetToBag({[id |-> id, url |-> idToUrl(id, top)]})]

\* the locals of parse at its first line
ParseLocals(idx) ==
    [pc |-> "lines", i |-> 0, CCW |-> TRUE, invertNext |-> FALSE,
     localCull |-> TRUE, part |-> LDRPartType, step |-> LDRStep(idx),
     extraSteps |-> <<>>, previousComment |-> Undefined]

IdleParse == [pc |-> "idle"]

\* for (var key in extraSteps) { extraStep.rotation = rot; part.addStep(extraStep); }
RECURSIVE AddExtraSteps(_, _, _)
AddExtraSteps(pt, extraSteps, rot) ==
    IF extraSteps = <<>> THEN pt
    ELSE AddExtraSteps(AddStep(pt, [Head(extraSteps).step EXCEPT !.rotation = rot]),
                       Tail(extraSteps), rot)

\* closeStep starting the next step without rotation whatever keepRotation is
closeStepDroppingRotation(w, keepRotation) ==
    LET p == w.p
        rot == p.step.rotation
        fresh == LDRStep(w.LDRStepIdx)
    IN [w EXCEPT
          !.LDRStepIdx = @ + 1,
          !.p.part = AddExtraSteps(AddStep(p.part, p.step), p.extraSteps, rot),
          !.p.step = fresh,
          !.p.extraSteps = <<>>]

\* closeStep(keepRotation)
closeStep(w, keepRotation) ==
    LET p == w.p
        rot == p.step.rotation
        fresh == LDRStep(w.LDRStepIdx)
    IN [w EXCEPT
          !.LDRStepIdx = @ + 1,
          !.p.part = AddExtraSteps(AddStep(p.part, p.step), p.extraSteps, rot),
          !.p.step = IF keepRotation THEN [fresh EXCEPT !.rotation = rot] ELSE fresh,
          !.p.extraSteps = <<>>]

MovedTo(comment) ==
    Len(comment.parts) >= 3 /\ comment.parts[1] = "~Moved" /\ comment.parts[2] = "to"

UnknownPart(comment) ==
    Len(comment.parts) >= 3 /\ comment.parts[1] = "~Unknown" /\ comment.parts[2] = "part"

\* setModelDescription()
setModelDescription(w) ==
    LET p == w.p IN
    IF p.part.modelDescription # Undefined \/ p.previousComment = Undefined THEN w
    ELSE LET c == p.previousComment
             w1 == [w EXCEPT !.p.part.modelDescription = c,
                             !.p.previousComment = Undefined]
         IN IF MovedTo(c)
            THEN LET lower == ToLowerCase(c.text)
                     newID == IF ~EndsWith(lower, DotDat) THEN lower \o DotDat
                              ELSE lower
                 IN Emit([w1 EXCEPT !.p.part.replacement = newID],
                         [cb |-> "onWarning", what |-> "moved"])
            ELSE IF UnknownPart(c)
            THEN Emit(w1, [cb |-> "onError", what |-> "unknown part"])
            ELSE w1

\* handlePotentialFileStart giving a part type it starts the BFC parameters a
\* parse call starts with
handlePotentialFileStartResettingBFC(w, name) ==
    LET p == w.p
        fileName == ReplaceFirst(ToLowerCase(name), "\\", "/")
    IN IF p.part.ID = fileName THEN setModelDescription(w)
       ELSE IF w.mainModel = UndefinedID
       THEN [w EXCEPT !.mainModel = fileName, !.p.part.ID = fileName]
       ELSE IF /\ Len(p.part.steps) = 0
               /\ p.step.empty
               /\ Len(p.extraSteps) = 0
               /\ w.mainModel = p.part.ID
       THEN [w EXCEPT !.mainModel = fileName, !.p.part.ID = fileName]
       ELSE LET w1 == closeStep(w, FALSE)
                w2 == [w1 EXCEPT !.ldrPartTypes = Put(@, w1.p.part.ID, w1.p.part)]
                w3 == Emit(w2, [cb |-> "onProgress", id |-> w1.p.part.ID])
            IN [w3 EXCEPT !.p.part = [LDRPartType EXCEPT !.ID = fileName],
                          !.p.CCW = TRUE, !.p.invertNext = FALSE,
                          !.p.localCull = TRUE]

\* handlePotentialFileStart(fileName)
handlePotentialFileStart(w, name) ==
    LET p == w.p
        fileName == ReplaceFirst(ToLowerCase(name), "\\", "/")
    IN IF p.part.ID = fileName THEN setModelDescription(w)
       ELSE IF w.mainModel = UndefinedID
       THEN [w EXCEPT !.mainModel = fileName, !.p.part.ID = fileName]
       ELSE IF /\ Len(p.part.steps) = 0
               /\ p.step.empty
               /\ Len(p.extraSteps) = 0
               /\ w.mainModel = p.part.ID
       THEN [w EXCEPT !.mainModel = fileName, !.p.part.ID = fileName]
       ELSE LET w1 == closeStep(w, FALSE)
                w2 == [w1 EXCEPT !.ldrPartTypes = Put(@, w1.p.part.ID, w1.p.part)]
                w3 == Emit(w2, [cb |-> "onProgress", id |-> w1.p.part.ID])
            IN [w3 EXCEPT !.p.part = [LDRPartType EXCEPT !.ID = fileName]]

\* parts[1][0] === "!"
FirstChar(tok) ==
    IF tok \in {"!LICENSE", "!INLINED", "!HISTORY", "!LDRAW_ORG"} THEN "!" ELSE "-"

\* case 0: a meta line.  line.parts are its tokens (parts[1] = "0"), line.text
\* the characters of parts.slice(2).join(" ") of a FILE/Name: line, or of the
\* target of a "~Moved to" comment
ParseMeta(w, line) ==
    LET parts == line.parts
        l3 == Len(parts) >= 3
        is(type) == l3 /\ parts[2] = type
        p == w.p
    IN IF is("FILE") \/ is("file") \/ is("Name:")
       THEN handlePotentialFileStart(w, line.text)
       ELSE IF is("Author:")
       THEN setModelDescription([w EXCEPT !.p.part.author = line.text])
       ELSE IF is("!LICENSE")
       THEN [w EXCEPT !.p.part.license = line.text]
       ELSE IF parts[2] = "BFC"
       THEN LET option == IF l3 THEN parts[3] ELSE "undefined"
                w1 == CASE option = "CERTIFY" -> [w EXCEPT !.p.CCW = TRUE]
                        [] option = "INVERTNEXT" -> [w EXCEPT !.p.invertNext = TRUE]
                        [] option = "CLIP" -> [w EXCEPT !.p.localCull = TRUE]
                        [] option = "NOCLIP" -> [w EXCEPT !.p.localCull = FALSE]
                        [] OTHER -> w
            IN IF Last(parts) = "CCW" THEN [w1 EXCEPT !.p.CCW = TRUE]
               ELSE IF Last(parts) = "CW" THEN [w1 EXCEPT !.p.CCW = FALSE]
               ELSE w1
       ELSE IF parts[2] = "STEP"
       THEN closeStep(w, TRUE)
       ELSE IF parts[2] = "ROTSTEP"
       THEN LET w1 == IF Len(parts) >= 5
                      THEN [w EXCEPT !.p.step.rotation =
                               LDRStepRotation(parts[3], parts[4], parts[5],
                                   IF Len(parts) = 5 THEN "REL" ELSE parts[6])]
                      ELSE IF Len(parts) = 3 /\ parts[3] = "END"
                      THEN [w EXCEPT !.p.step.rotation = NullRotation]
                      ELSE w
            IN closeStep(w1, TRUE)
       ELSE IF parts[2] = "!INLINED"
       THEN [w EXCEPT !.p.part.inlined = TRUE]
       ELSE IF FirstChar(parts[2]) = "!"
       THEN Emit([w EXCEPT !.p.invertNext = FALSE],
                 [cb |-> "onWarning", what |-> "unknown command"])
       ELSE [w EXCEPT !.p.invertNext = FALSE,
                      !.p.previousComment = [parts |-> Tail(parts),
                                             text |-> line.text]]

\* the bucket key '' + colorID + subModelID
ExtraStepKey(colorID, subModelID) == NumberToString(colorID) \o subModelID

ExtraStepIndex(extraSteps, key) ==
    IF \E k \in 1..Len(extraSteps) : extraSteps[k].key = key
    THEN CHOOSE k \in 1..Len(extraSteps) : extraSteps[k].key = key
    ELSE 0

\* case 1 without its final invertNext = false
ParseSubModelKeepingInvertNext(w, colorID, line) ==
    LET p == w.p
        subModelID == ToLowerCase(line.subModelID)
        subModel == LDRPartDescription(colorID, line.position, line.rotation,
                                       subModelID, p.localCull, p.invertNext)
    IN [w EXCEPT !.p.step = StepAddDAT(@, subModel)]

\* case 1 without the load call for the file of the target
ParseSubModelWithoutLoad(w, colorID, line) ==
    LET p == w.p
        subModelID == ToLowerCase(line.subModelID)
        subModel == LDRPartDescription(colorID, line.position, line.rotation,
                                       subModelID, p.localCull, p.invertNext)
        isLDR == EndsWith(subModelID, DotLdr)
        key == ExtraStepKey(colorID, subModelID)
        k == ExtraStepIndex(p.extraSteps, key)
        w1 == IF isLDR
              THEN IF k # 0
                   THEN [w EXCEPT !.p.extraSteps[k].step = StepAddLDR(@, subModel)]
                   ELSE [w EXCEPT
                           !.LDRStepIdx = @ + 1,
                           !.p.extraSteps =
                               Append(@, [key |-> key,
                                          step |-> StepAddLDR(LDRStep(w.LDRStepIdx),
                                                              subModel)])]
              ELSE [w EXCEPT !.p.step = StepAddDAT(@, subModel)]
    IN [w1 EXCEPT !.p.invertNext = FALSE]

\* case 1: a sub model line
ParseSubModel(w, colorID, line) ==
    LET p == w.p
        subModelID == ToLowerCase(line.subModelID)
        subModel == LDRPartDescription(colorID, line.position, line.rotation,
                                       subModelID, p.localCull, p.invertNext)
        isLDR == EndsWith(subModelID, DotLdr)
        key == ExtraStepKey(colorID, subModelID)
        k == ExtraStepIndex(p.extraSteps, key)
        w1 == IF isLDR
              THEN IF k # 0
                   THEN [w EXCEPT !.p.extraSteps[k].step = StepAddLDR(@, subModel)]
                   ELSE [w EXCEPT
                           !.LDRStepIdx = @ + 1,
                           !.p.extraSteps =
                               Append(@, [key |-> key,
                                          step |-> StepAddLDR(LDRStep(w.LDRStepIdx),
                                                              subModel)])]
              ELSE [w EXCEPT !.p.step = StepAddDAT(@, subModel)]
        w2 == IF ~isLDR /\ w.loadRelatedFilesImmediately
              THEN load(w1, subModelID, FALSE)
              ELSE w1
    IN [w2 EXCEPT !.p.invertNext = FALSE]

\* case 2: a line
ParseLine2(w, colorID, line) ==
    [w EXCEPT !.p.step = StepAddLine(@, colorID, line.pts[1], line.pts[2]),
              !.p.invertNext = FALSE]

\* case 3 with the winding test inverted (CCW != invertNext)
ParseTriangleInverted(w, colorID, line) ==
    LET p == w.p
        s1 == IF p.CCW # p.invertNext
              THEN StepAddTrianglePoints(p.step, colorID, line.pts[3], line.pts[2],
                                         line.pts[1])
              ELSE StepAddTrianglePoints(p.step, colorID, line.pts[1], line.pts[2],
                                         line.pts[3])
        s2 == IF ~p.localCull THEN [s1 EXCEPT !.cull = FALSE] ELSE s1
    IN [w EXCEPT !.p.step = s2, !.p.invertNext = FALSE]

\* case 3 with the winding test looking at CCW alone
ParseTriangleIgnoringInvertNext(w, colorID, line) ==
    LET p == w.p
        s1 == IF ~p.CCW
              THEN StepAddTrianglePoints(p.step, colorID, line.pts[3], line.pts[2],
                                         line.pts[1])
              ELSE StepAddTrianglePoints(p.step, colorID, line.pts[1], line.pts[2],
                                         line.pts[3])
        s2 == IF ~p.localCull THEN [s1 EXCEPT !.cull = FALSE] ELSE s1
    IN [w EXCEPT !.p.step = s2, !.p.invertNext = FALSE]

\* case 3: a triangle
ParseTriangle(w, colorID, line) ==
    LET p == w.p
        p1 == line.pts[1]
        p2 == line.pts[2]
        p3 == line.pts[3]
        s1 == IF p.CCW = p.invertNext
              THEN StepAddTrianglePoints(p.step, colorID, p3, p2, p1)
              ELSE StepAddTrianglePoints(p.step, colorID, p1, p2, p3)
        s2 == IF ~p.localCull THEN [s1 EXCEPT !.cull = FALSE] ELSE s1
    IN [w EXCEPT !.p.step = s2, !.p.invertNext = FALSE]

\* case 4: a quad
ParseQuad(w, colorID, line) ==
    LET p == w.p
        p1 == line.pts[1]
        p2 == line.pts[2]
        p3 == line.pts[3]
        p4 == line.pts[4]
        s1 == IF p.CCW = p.invertNext
              THEN StepAddTrianglePoints(
                       StepAddTrianglePoints(p.step, colorID, p4, p2, p1),
                       colorID, p4, p3, p2)
              ELSE StepAddTrianglePoints(
                       StepAddTrianglePoints(p.step, colorID, p1, p2, p4),
                       colorID, p2, p3, p4)
        s2 == IF ~p.localCull THEN [s1 EXCEPT !.cull = FALSE] ELSE s1
    IN [w EXCEPT !.p.step = s2, !.p.invertNext = FALSE]

\* case 5: a conditional line
ParseConditionalLine(w, colorID, line) ==
    [w EXCEPT !.p.step = StepAddConditionalLine(@, colorID, line.pts[1],
                                                line.pts[2], line.pts[3],
                                                line.pts[4]),
              !.p.invertNext = FALSE]

\* the loop body storing the colour of the line also when the colour table
\* does not have it
ParseLineKeepingUnknownColor(w0, line) ==
    LET w == [w0 EXCEPT !.p.i = @ + 1] IN
    IF line.lineType = 0 THEN ParseMeta(w, line)
    ELSE LET unknown == line.colorID \notin LDRColors
             colorID == line.colorID
             w1 == IF unknown
                   THEN Emit(w, [cb |-> "onWarning", what |-> "unknown color"])
                   ELSE w
         IN CASE line.lineType = 1 -> ParseSubModel(w1, colorID, line)
              [] line.lineType = 2 -> ParseLine2(w1, colorID, line)
              [] line.lineType = 3 -> ParseTriangle(w1, colorID, line)
              [] line.lineType = 4 -> ParseQuad(w1, colorID, line)
              [] line.lineType = 5 -> ParseConditionalLine(w1, colorID, line)
              [] OTHER -> w1

\* one iteration of the loop over dataLines, for a line of more than one token
ParseLine(w0, line) ==
    LET w == [w0 EXCEPT !.p.i = @ + 1] IN
    IF line.lineType = 0 THEN ParseMeta(w, line)
    ELSE LET unknown == line.colorID \notin LDRColors
             colorID == IF unknown THEN 0 ELSE line.colorID
             w1 == IF unknown
                   THEN Emit(w, [cb |-> "onWarning", what |-> "unknown color"])
                   ELSE w
         IN CASE line.lineType = 1 -> ParseSubModel(w1, colorID, line)
              [] line.lineType = 2 -> ParseLine2(w1, colorID, line)
              [] line.lineType = 3 -> ParseTriangle(w1, colorID, line)
              [] line.lineType = 4 -> ParseQuad(w1, colorID, line)
              [] line.lineType = 5 -> ParseConditionalLine(w1, colorID, line)
              [] OTHER -> w1

\* the statements of parse after the loop
ParseFinish(w0) ==
    LET w == w0
        part == AddStep(w.p.part, w.p.step)
    IN [w EXCEPT !.p.part = part,
                 !.p.pc = "done",
                 !.ldrPartTypes = Put(@, part.ID, part)]

RECURSIVE ParseLines(_, _)
ParseLines(w, lines) ==
    IF lines = <<>> THEN w ELSE ParseLines(ParseLine(w, Head(lines)), Tail(lines))

\* parse(data) as a whole, data given as its lines
Parse(w, lines) ==
    ParseFinish(ParseLines([w EXCEPT !.LDRStepIdx = @ + 1,
                                     !.p = ParseLocals(w.LDRStepIdx)], lines))

(***************************************************************************)
(* The state as a record W, and back.                                      *)
(***************************************************************************)
World ==
    [ldrPartTypes |-> ldrPartTypes, mainModel |-> mainModel,
     unloadedFiles |-> unloadedFiles,
     loadRelatedFilesImmediately |-> loadRelatedFilesImmediately,
     pending |-> pending, fileLoader |-> fileLoader, LDRStepIdx |-> LDRStepIdx,
     p |-> parse, out |-> <<>>]

Install(w) ==
    /\ ldrPartTypes' = w.ldrPartTypes
    /\ mainModel' = w.mainModel
    /\ unloadedFiles' = w.unloadedFiles
    /\ pending' = w.pending
    /\ fileLoader' = w.fileLoader
    /\ LDRStepIdx' = w.LDRStepIdx
    /\ parse' = w.p
    /\ UNCHANGED loadRelatedFilesImmediately

(***************************************************************************)
(* Input lines.                                                            *)
(***************************************************************************)
PA == <<0, 0, 0>>
PB == <<1, 0, 0>>
PC == <<0, 1, 0>>
PD == <<0, 0, 1>>

Identity == <<1, 0, 0, 0, 1, 0, 0, 0, 1>>

Meta(parts) == [lineType |-> 0, parts |-> parts, text |-> <<>>]

BFCLines ==
    {Meta(<<"0", "BFC", "INVERTNEXT">>), Meta(<<"0", "BFC", "CW">>),
     Meta(<<"0", "BFC", "CCW">>), Meta(<<"0", "BFC", "NOCLIP">>),
     Meta(<<"0", "BFC", "CLIP">>), Meta(<<"0", "BFC", "CERTIFY", "CW">>)}

CommentLines ==
    {Meta(<<"0", "some", "comment">>), Meta(<<"0", "!HISTORY", "x">>)}

StepLines == {Meta(<<"0", "STEP">>)}

IdADat == <<"a", ".", "d", "a", "t">>
IdBDat == <<"b", ".", "d", "a", "t">>
IdSLdr == <<"s", ".", "l", "d", "r">>
IdMLdr == <<"m", ".", "l", "d", "r">>

SubModelLine(c, id) ==
    [lineType |-> 1, colorID |-> c, position |-> PA, rotation |-> Identity,
     subModelID |-> id]

\* a model file that is no .ldr file
IdSMpd == <<"s", ".", "m", "p", "d">>

\* 6s.ldr: with the colour 1 in front it reads as s.ldr with the colour 16
Id6SLdr == <<"6", "s", ".", "l", "d", "r">>

SubModelLines ==
    {SubModelLine(16, IdADat), SubModelLine(4, IdSLdr), SubModelLine(7, IdSLdr),
     SubModelLine(4, IdSMpd), SubModelLine(16, IdSLdr), SubModelLine(1, Id6SLdr)}

Geometry(t, c, pts) == [lineType |-> t, colorID |-> c, pts |-> pts]

\* colour 7 is not in the colour table
TriangleLines == {Geometry(3, 16, <<PA, PB, PC>>), Geometry(3, 7, <<PB, PC, PD>>)}
QuadLines == {Geometry(4, 4, <<PA, PB, PC, PD>>), Geometry(4, 7, <<PA, PB, PC, PD>>)}
Line2Lines == {Geometry(2, 24, <<PA, PB>>), Geometry(2, 7, <<PA, PC>>)}
ConditionalLines ==
    {Geometry(5, 24, <<PA, PB, PC, PD>>), Geometry(5, 7, <<PA, PB, PC, PD>>)}

NameLine(id) == [lineType |-> 0, parts |-> <<"0", "Name:", "id">>, text |-> id]
FileLine(id) == [lineType |-> 0, parts |-> <<"0", "FILE", "id">>, text |-> id]

\* names written in upper case and with backslashes: S\X.DAT, s\x\a.dat
IdSXDatUpper == <<"S", "\\", "X", ".", "D", "A", "T">>
IdSXADat == <<"s", "\\", "x", "\\", "a", ".", "d", "a", "t">>

\* s\x.dat and s/x.dat
IdSXDatBackslash == <<"s", "\\", "x", ".", "d", "a", "t">>
IdSXDat == <<"s", "/", "x", ".", "d", "a", "t">>

NameLines == {FileLine(IdSXDatUpper), NameLine(IdSXADat)}

(***************************************************************************)
(* Actions of a parse call, line by line.                                  *)
(***************************************************************************)
BFCState(p) == [CCW |-> p.CCW, invertNext |-> p.invertNext,
                localCull |-> p.localCull]

ParseBegin ==
    /\ parse.pc = "idle"
    /\ parse' = ParseLocals(LDRStepIdx)
    /\ LDRStepIdx' = LDRStepIdx + 1
    /\ trace' = [op |-> "parseBegin"]
    /\ UNCHANGED <<ldrPartTypes, mainModel, unloadedFiles,
                   loadRelatedFilesImmediately, pending, fileLoader, partType,
                   meshCollector>>

DoLine(line) ==
    /\ parse.pc = "lines"
    /\ parse.i < MaxLines
    /\ LET w == ParseLine(World, line) IN
         /\ Install(w)
         /\ trace' = [op |-> "line", line |-> line, before |-> BFCState(parse),
                      out |-> w.out]
    /\ UNCHANGED <<partType, meshCollector>>

ParseBFCLine == \E line \in BFCLines : DoLine(line)
ParseCommentLine == \E line \in CommentLines : DoLine(line)
ParseStepLine == \E line \in StepLines : DoLine(line)
ParseNameLine == \E line \in NameLines : DoLine(line)
ParseSubModelLine == \E line \in SubModelLines : DoLine(line)
ParseLine2Line == \E line \in Line2Lines : DoLine(line)
ParseTriangleLine == \E line \in TriangleLines : DoLine(line)
ParseQuadLine == \E line \in QuadLines : DoLine(line)
ParseConditionalLineLine == \E line \in ConditionalLines : DoLine(line)

ParseEnd ==
    /\ parse.pc = "lines"
    /\ LET w == ParseFinish(World) IN
         /\ Install(w)
         /\ trace' = [op |-> "parseEnd"]
    /\ UNCHANGED <<partType, meshCollector>>

(***************************************************************************)
(* Construction.                                                           *)
(***************************************************************************)
EmptyRegistry == [k \in {} |-> TrueMarker]

LDRMeshCollector ==
    [unbakedVertices |-> <<>>, vertices |-> <<>>, sizeVertices |-> 0,
     triangleIndices |-> EmptyRegistry, lineIndices |-> EmptyRegistry,
     conditionalLineIndices |-> EmptyRegistry]

Init ==
    /\ ldrPartTypes = EmptyRegistry
    /\ mainModel = UndefinedID
    /\ unloadedFiles = 0
    /\ loadRelatedFilesImmediately \in BOOLEAN
    /\ pending = {}
    /\ fileLoader = [loads |-> EmptyBag, failed |-> {}, delivered |-> 0]
    /\ LDRStepIdx = 0
    /\ parse = IdleParse
    /\ partType = LDRPartType
    /\ meshCollector = LDRMeshCollector
    /\ trace = [op |-> "init"]

(***************************************************************************)
(* SpecParse: one parse call over lines of BFC commands and geometry.      *)
(***************************************************************************)
NextParse ==
    \/ ParseBegin
    \/ ParseBFCLine
    \/ ParseCommentLine
    \/ ParseStepLine
    \/ ParseNameLine
    \/ ParseSubModelLine
    \/ ParseLine2Line
    \/ ParseTriangleLine
    \/ ParseQuadLine
    \/ ParseConditionalLineLine
    \/ ParseEnd

SpecParse == Init /\ [][NextParse]_vars

(***************************************************************************)
(* Claims about the BFC state of the parser (SpecParse).                   *)
(***************************************************************************)
TriangleParsed == trace.op = "line" /\ trace.line.lineType = 3

StoredTriangle == Last(parse.step.triangles)

StoredForward ==
    /\ StoredTriangle.p1 = trace.line.pts[1]
    /\ StoredTriangle.p2 = trace.line.pts[2]
    /\ StoredTriangle.p3 = trace.line.pts[3]

StoredReverse ==
    /\ StoredTriangle.p1 = trace.line.pts[3]
    /\ StoredTriangle.p2 = trace.line.pts[2]
    /\ StoredTriangle.p3 = trace.line.pts[1]

\* C1: a triangle line parsed with CCW = true and invertNext = false is stored
\* in source order (p1,p2,p3); with exactly one of the two flags flipped it is
\* stored as (p3,p2,p1); with both flipped it is stored in source order again.
C1_WindingFourCases ==
    TriangleParsed =>
        /\ Len(parse.step.triangles) >= 1
        /\ (trace.before.CCW /\ ~trace.before.invertNext) => StoredForward
        /\ (~trace.before.CCW /\ ~trace.before.invertNext) => StoredReverse
        /\ (trace.before.CCW /\ trace.before.invertNext) => StoredReverse
        /\ (~trace.before.CCW /\ trace.before.invertNext) => StoredForward

\* a triangle line parsed with both flags flipped, stored in source order
C1_Witness ==
    /\ TriangleParsed
    /\ ~trace.before.CCW /\ trace.before.invertNext
    /\ StoredForward /\ ~StoredReverse

XOR(a, b) == a # b

\* C2 as stated: a triangle is stored in reverse order (p3,p2,p1) exactly when
\* (ccw XOR invertNext) is true at its line, and in forward order exactly when
\* (ccw XOR invertNext) is false.
C2_AsStated ==
    TriangleParsed =>
        /\ StoredReverse <=> XOR(trace.before.CCW, trace.before.invertNext)
        /\ StoredForward <=> ~XOR(trace.before.CCW, trace.before.invertNext)

\* C2 amended: a triangle is stored in reverse order (p3,p2,p1) exactly when
\* (ccw XOR invertNext) is false at its line (CCW == invertNext), and in forward
\* order (p1,p2,p3) exactly when (ccw XOR invertNext) is true.
C2_ReverseIffFlagsEqual ==
    TriangleParsed =>
        /\ StoredReverse <=> ~XOR(trace.before.CCW, trace.before.invertNext)
        /\ StoredForward <=> XOR(trace.before.CCW, trace.before.invertNext)

\* a triangle line parsed with CCW = true and invertNext = true, stored reversed
C2_Witness ==
    /\ TriangleParsed
    /\ trace.before.CCW /\ trace.before.invertNext
    /\ StoredReverse /\ ~StoredForward

GeometryParsed == trace.op = "line" /\ trace.line.lineType \in 1..5

\* C3: immediately after the parser has processed a line of type 1, 2, 3, 4 or
\* 5, invertNext is false, whichever branch was taken.
C3_InvertNextOneShot == GeometryParsed => ~parse.invertNext

\* a sub model line parsed while invertNext was set, and invertNext reset by it
C3_Witness ==
    /\ GeometryParsed
    /\ trace.line.lineType = 1
    /\ trace.before.invertNext
    /\ ~parse.invertNext

(***************************************************************************)
(* SpecStep: addStep called directly on one part type, with steps that are *)
(* empty or hold one line, under each rotation directive.                  *)
(***************************************************************************)
StepRotations ==
    {NullRotation,
     LDRStepRotation("0", "90", "0", "REL"),
     LDRStepRotation("0", "90", "0", "abs"),
     LDRStepRotation("x", "0", "0", "REL")}

NoPartType == [none |-> TRUE]

AddStepCall ==
    /\ LDRStepIdx < MaxAddSteps
    /\ \E empty \in BOOLEAN, rotation \in StepRotations :
         LET fresh == [LDRStep(LDRStepIdx) EXCEPT !.rotation = rotation]
             step == IF empty THEN fresh ELSE StepAddLine(fresh, 16, PA, PB)
         IN /\ partType' = AddStep(partType, step)
            /\ trace' = [op |-> "addStep", step |-> step, before |-> partType,
                         previous |-> IF trace.op = "addStep"
                                      THEN <<trace.step>> ELSE <<>>,
                         beforePrevious |-> IF trace.op = "addStep"
                                            THEN trace.before ELSE NoPartType]
    /\ LDRStepIdx' = LDRStepIdx + 1
    /\ UNCHANGED <<ldrPartTypes, mainModel, unloadedFiles,
                   loadRelatedFilesImmediately, pending, fileLoader, parse,
                   meshCollector>>

NextStep == AddStepCall

SpecStep == Init /\ [][NextStep]_vars

\* C4: after any sequence of addStep calls on a part type, the first element
\* of its steps, if there is one, is a non-empty step.
C4_NoLeadingEmptyStep ==
    Len(partType.steps) > 0 => ~partType.steps[1].empty

\* an empty step was passed to addStep on a part type without steps, and then
\* a non-empty one became the first step
C4_Witness ==
    /\ trace.op = "addStep"
    /\ trace.previous # <<>>
    /\ trace.previous[1].empty
    /\ Len(trace.beforePrevious.steps) = 0
    /\ Len(partType.steps) = 1
    /\ partType.steps[1] = trace.step

\* the last two addStep calls passed empty steps with equal rotation directives
PairOfEmptySteps ==
    /\ trace.op = "addStep"
    /\ trace.previous # <<>>
    /\ trace.previous[1].empty
    /\ trace.step.empty
    /\ RotationEquals(trace.previous[1].rotation, trace.step.rotation)

StepsFromPair ==
    {k \in 1..Len(partType.steps) :
        partType.steps[k].idx \in {trace.previous[1].idx, trace.step.idx}}

\* C5 as stated: appending two consecutive empty steps with the same rotation
\* directive, in any prior state of the part type, leaves exactly one step of
\* the pair in the steps sequence.
C5_AsStated == PairOfEmptySteps => Cardinality(StepsFromPair) = 1

\* C5 amended: appending two consecutive empty steps with equal rotation
\* directives leaves at most one step of the pair in the steps sequence: the
\* first of the two, appended at the end, when the part type had a step and a
\* last rotation different from the pair's; none, the part type unchanged, when
\* the part type had no step or its last rotation equals the pair's.
C5_AtMostOneOfPair ==
    PairOfEmptySteps =>
        LET pt0 == trace.beforePrevious
            first == trace.previous[1]
        IN IF Len(pt0.steps) > 0 /\ ~RotationEquals(first.rotation, pt0.lastRotation)
           THEN /\ partType.steps = Append(pt0.steps, first)
                /\ Cardinality(StepsFromPair) = 1
           ELSE /\ partType = pt0
                /\ Cardinality(StepsFromPair) = 0

\* a pair of empty steps appended to a part type with a step, one of them kept
C5_Witness ==
    /\ PairOfEmptySteps
    /\ Len(trace.beforePrevious.steps) > 0
    /\ Cardinality(StepsFromPair) = 1
    /\ Last(partType.steps) = trace.previous[1]

(***************************************************************************)
(* THREE.LDRMeshCollector: the index buffers are sequences (entry id of    *)
(* the code is element id + 1), -1 is the entry of a vertex not yet baked. *)
(***************************************************************************)
Unbaked(p, id, t, c) ==
    [x |-> p[1], y |-> p[2], z |-> p[3], id |-> id, t |-> t, c |-> c]

IndicesOf(buffers, colorID) ==
    IF colorID \in DOMAIN buffers THEN buffers[colorID] ELSE <<>>

WithIndices(buffers, colorID, t) ==
    [k \in DOMAIN buffers \cup {colorID} |-> IF k = colorID THEN t ELSE buffers[k]]

\* LDRMeshCollector.prototype.addTriangle
addTriangle(mc, colorID, p1, p2, p3) ==
    LET t == IndicesOf(mc.triangleIndices, colorID)
        size == Len(t)
    IN [mc EXCEPT
          !.triangleIndices = WithIndices(@, colorID, t \o <<-1, -1, -1>>),
          !.unbakedVertices = @ \o <<Unbaked(p1, size, 0, colorID),
                                      Unbaked(p2, size + 1, 0, colorID),
                                      Unbaked(p3, size + 2, 0, colorID)>>]

\* LDRMeshCollector.prototype.addLine
addLine(mc, colorID, p1, p2) ==
    LET t == IndicesOf(mc.lineIndices, colorID)
        size == Len(t)
    IN [mc EXCEPT
          !.lineIndices = WithIndices(@, colorID, t \o <<-1, -1>>),
          !.unbakedVertices = @ \o <<Unbaked(p1, size, 1, colorID),
                                      Unbaked(p2, size + 1, 1, colorID)>>]

\* LDRMeshCollector.prototype.addConditionalLine
addConditionalLine(mc, colorID, p1, p2, p3, p4) ==
    LET t == IndicesOf(mc.conditionalLineIndices, colorID)
        size == Len(t)
    IN [mc EXCEPT
          !.conditionalLineIndices = WithIndices(@, colorID, t \o <<-1, -1>>),
          !.unbakedVertices = @ \o <<Unbaked(p1, size, 2, colorID),
                                      Unbaked(p2, size + 1, 2, colorID)>>]

\* the comparator of the sort in bakeVertices: a before b
VertexBefore(a, b) ==
    IF a.x # b.x THEN a.x < b.x
    ELSE IF a.y # b.y THEN a.y < b.y
    ELSE a.z < b.z

\* Array.prototype.sort with that comparator (insertion, stable)
RECURSIVE InsertVertex(_, _)
InsertVertex(sorted, v) ==
    IF sorted = <<>> THEN <<v>>
    ELSE IF VertexBefore(v, Head(sorted)) THEN <<v>> \o sorted
    ELSE <<Head(sorted)>> \o InsertVertex(Tail(sorted), v)

RECURSIVE SortVertices(_)
SortVertices(vs) ==
    IF vs = <<>> THEN <<>>
    ELSE InsertVertex(SortVertices(SubSeq(vs, 1, Len(vs) - 1)), Last(vs))

\* the body of the loop of bakeVertices for the sorted vertex p
BakeVertex(b, p) ==
    LET new == p.z # b.prev.z \/ p.y # b.prev.y \/ p.x # b.prev.x
        mc1 == IF new
               THEN [b.mc EXCEPT !.vertices = @ \o <<p.x, p.y, p.z>>,
                                 !.sizeVertices = @ + 1]
               ELSE b.mc
        index == mc1.sizeVertices - 1
        mc2 == IF p.t = 0
               THEN [mc1 EXCEPT !.triangleIndices[p.c][p.id + 1] = index]
               ELSE IF p.t = 1
               THEN [mc1 EXCEPT !.lineIndices[p.c][p.id + 1] = index]
               ELSE [mc1 EXCEPT !.conditionalLineIndices[p.c][p.id + 1] = index]
    IN [mc |-> mc2, prev |-> IF new THEN p ELSE b.prev]

RECURSIVE BakeLoop(_, _)
BakeLoop(b, sorted) ==
    IF sorted = <<>> THEN b
    ELSE BakeLoop(BakeVertex(b, Head(sorted)), Tail(sorted))

\* LDRMeshCollector.prototype.bakeVertices
bakeVertices(mc) ==
    LET sorted == SortVertices(mc.unbakedVertices)
        prev == [x |-> PrevInit, y |-> PrevInit, z |-> PrevInit]
        b == BakeLoop([mc |-> mc, prev |-> prev], sorted)
    IN [b.mc EXCEPT !.unbakedVertices = <<>>]

(***************************************************************************)
(* SpecBake: primitives added to one mesh collector and baked.             *)
(***************************************************************************)
PS == <<PrevInit, PrevInit, PrevInit>>

BakePoints == {PA, PB, PS}

Primitives(mc) == Len(mc.unbakedVertices)

CanAdd ==
    /\ trace.op \in {"init", "add", "bake"}
    /\ (IF trace.op = "init" THEN 0 ELSE trace.prims) < MaxPrims

Added(mc) ==
    /\ meshCollector' = mc
    /\ trace' = [op |-> "add",
                 prims |-> (IF trace.op = "init" THEN 0 ELSE trace.prims) + 1,
                 bakes |-> IF trace.op = "init" THEN 0 ELSE trace.bakes]
    /\ UNCHANGED <<ldrPartTypes, mainModel, unloadedFiles,
                   loadRelatedFilesImmediately, pending, fileLoader, LDRStepIdx, parse,
                   partType>>

AddTriangleCall ==
    /\ CanAdd
    /\ \E p1 \in BakePoints, p2 \in BakePoints :
         Added(addTriangle(meshCollector, 4, p1, p2, PB))

AddLineCall ==
    /\ CanAdd
    /\ \E c \in {0, EdgeOffset + 4}, p1 \in BakePoints, p2 \in BakePoints :
         Added(addLine(meshCollector, c, p1, p2))

AddConditionalLineCall ==
    /\ CanAdd
    /\ \E p1 \in BakePoints, p2 \in BakePoints :
         Added(addConditionalLine(meshCollector, EdgeOffset + 4, p1, p2, PC, PD))

BakeVerticesCall ==
    /\ trace.op \in {"init", "add", "bake"}
    /\ (IF trace.op = "init" THEN 0 ELSE trace.bakes) < MaxBakes
    /\ meshCollector' = bakeVertices(meshCollector)
    /\ trace' = [op |-> "bake",
                 prims |-> IF trace.op = "init" THEN 0 ELSE trace.prims,
                 bakes |-> (IF trace.op = "init" THEN 0 ELSE trace.bakes) + 1,
                 batch |-> meshCollector.unbakedVertices,
                 sizeBefore |-> meshCollector.sizeVertices]
    /\ UNCHANGED <<ldrPartTypes, mainModel, unloadedFiles,
                   loadRelatedFilesImmediately, pending, fileLoader, LDRStepIdx, parse,
                   partType>>

NextBake ==
    \/ AddTriangleCall
    \/ AddLineCall
    \/ AddConditionalLineCall
    \/ BakeVerticesCall

SpecBake == Init /\ [][NextBake]_vars

AllIndices(mc) ==
    UNION {{mc.triangleIndices[c][k] : k \in 1..Len(mc.triangleIndices[c])} :
               c \in DOMAIN mc.triangleIndices}
    \cup UNION {{mc.lineIndices[c][k] : k \in 1..Len(mc.lineIndices[c])} :
               c \in DOMAIN mc.lineIndices}
    \cup UNION {{mc.conditionalLineIndices[c][k] :
                    k \in 1..Len(mc.conditionalLineIndices[c])} :
               c \in DOMAIN mc.conditionalLineIndices}

Baked == trace.op = "bake"

VerticesAppended == meshCollector.sizeVertices - trace.sizeBefore

\* C9: after bakeVertices returns, no index buffer entry of any colour holds
\* -1, the unbaked list is empty, and the number of vertices appended by the
\* bake is at most the number of points baked.
C9_AllResolved ==
    Baked =>
        /\ -1 \notin AllIndices(meshCollector)
        /\ meshCollector.unbakedVertices = <<>>
        /\ VerticesAppended <= Len(trace.batch)

BatchPoints ==
    {<<trace.batch[k].x, trace.batch[k].y, trace.batch[k].z>> :
        k \in 1..Len(trace.batch)}

PatchedIndex(mc, p) ==
    IF p.t = 0 THEN mc.triangleIndices[p.c][p.id + 1]
    ELSE IF p.t = 1 THEN mc.lineIndices[p.c][p.id + 1]
    ELSE mc.conditionalLineIndices[p.c][p.id + 1]

VertexAt(mc, index) ==
    IF index >= 0 /\ 3 * index + 3 <= Len(mc.vertices)
    THEN <<mc.vertices[3 * index + 1], mc.vertices[3 * index + 2],
           mc.vertices[3 * index + 3]>>
    ELSE <<>>

\* C10: the number of vertices a bake appends equals the number of distinct
\* (x,y,z) triples among the points baked, and the vertex stored at the index
\* patched into each point's entry has that point's coordinates.
C10_ExactDedup ==
    Baked =>
        /\ VerticesAppended = Cardinality(BatchPoints)
        /\ \A k \in 1..Len(trace.batch) :
              LET p == trace.batch[k] IN
              VertexAt(meshCollector, PatchedIndex(meshCollector, p))
                  = <<p.x, p.y, p.z>>

\* the same two statements for the bakes whose points do not include the
\* initial 'prev' of bakeVertices
BakeWithoutPrevInit ==
    (Baked /\ PS \notin BatchPoints) =>
        /\ VerticesAppended = Cardinality(BatchPoints)
        /\ \A k \in 1..Len(trace.batch) :
              LET p == trace.batch[k] IN
              VertexAt(meshCollector, PatchedIndex(meshCollector, p))
                  = <<p.x, p.y, p.z>>

(***************************************************************************)
(* THREE.Matrix3 and THREE.Vector3                                         *)
(***************************************************************************)
\* Vector3.applyMatrix3
applyMatrix3(v, m) ==
    <<m[1] * v[1] + m[2] * v[2] + m[3] * v[3],
      m[4] * v[1] + m[5] * v[2] + m[6] * v[3],
      m[7] * v[1] + m[8] * v[2] + m[9] * v[3]>>

\* Vector3.add
add(v, u) == <<v[1] + u[1], v[2] + u[2], v[3] + u[3]>>

\* Matrix3.multiplyMatrices
multiplyMatrices(a, b) ==
    <<a[1] * b[1] + a[2] * b[4] + a[3] * b[7],
      a[1] * b[2] + a[2] * b[5] + a[3] * b[8],
      a[1] * b[3] + a[2] * b[6] + a[3] * b[9],
      a[4] * b[1] + a[5] * b[4] + a[6] * b[7],
      a[4] * b[2] + a[5] * b[5] + a[6] * b[8],
      a[4] * b[3] + a[5] * b[6] + a[6] * b[9],
      a[7] * b[1] + a[8] * b[4] + a[9] * b[7],
      a[7] * b[2] + a[8] * b[5] + a[9] * b[8],
      a[7] * b[3] + a[8] * b[6] + a[9] * b[9]>>

\* Matrix3.determinant
determinant(m) ==
    m[1] * (m[5] * m[9] - m[6] * m[8])
    - m[2] * (m[4] * m[9] - m[6] * m[7])
    + m[3] * (m[4] * m[8] - m[5] * m[7])

(***************************************************************************)
(* generateThreePart.  A call in progress is a record f:                   *)
(*   mc: the mesh collector; error: the exception thrown ("none" if none); *)
(*   log: the calls made on the mesh collector, in order, together with    *)
(*   the entries and exits of part types and the exits of steps;           *)
(*   insts: the number of part type instances entered.                     *)
(***************************************************************************)
Start(mc) == [mc |-> mc, error |-> "none", log |-> <<>>, insts |-> 0]

Throw(f, name) == [f EXCEPT !.error = name]

Logged(f, entry) == [f EXCEPT !.log = Append(@, entry)]

\* transformColor giving the edge colour (24) the colour of the context itself
transformColorWithoutOffset(colorID, subColorID) ==
    IF subColorID = 16 THEN colorID
    ELSE IF subColorID = 24 THEN colorID
    ELSE subColorID

\* transformColor
transformColor(colorID, subColorID) ==
    IF subColorID = 16 THEN colorID
    ELSE IF subColorID = 24 THEN 10000 + colorID
    ELSE subColorID

\* transformPoint adding the position before the rotation is applied
transformPointTranslatingFirst(position, rotation, p) ==
    applyMatrix3(add(p, position), rotation)

\* transformPoint
transformPoint(position, rotation, p) == add(applyMatrix3(p, rotation), position)

\* the calls on the mesh collector; the log keeps the record of the step
\* (source) the call is made for
SinkAddLine(f, c, p1, p2, source) ==
    Logged([f EXCEPT !.mc = addLine(@, c, p1, p2)],
           [call |-> "addLine", colorID |-> c, pts |-> <<p1, p2>>,
            source |-> source])

SinkAddTriangle(f, c, p1, p2, p3, source) ==
    Logged([f EXCEPT !.mc = addTriangle(@, c, p1, p2, p3)],
           [call |-> "addTriangle", colorID |-> c, pts |-> <<p1, p2, p3>>,
            source |-> source])

SinkAddConditionalLine(f, c, p1, p2, p3, p4, source) ==
    Logged([f EXCEPT !.mc = addConditionalLine(@, c, p1, p2, p3, p4)],
           [call |-> "addConditionalLine", colorID |-> c,
            pts |-> <<p1, p2, p3, p4>>, source |-> source])

SinkBakeVertices(f) ==
    Logged([f EXCEPT !.mc = bakeVertices(@)], [call |-> "bakeVertices"])

\* the loop "Add lines"
RECURSIVE EmitLines(_, _, _, _, _)
EmitLines(f, lines, colorID, position, rotation) ==
    IF lines = <<>> THEN f
    ELSE LET line == Head(lines) IN
         EmitLines(SinkAddLine(f, transformColor(colorID, line.colorID),
                               transformPoint(position, rotation, line.p1),
                               transformPoint(position, rotation, line.p2), line),
                   Tail(lines), colorID, position, rotation)

\* the body of the loop "Add triangles" with one call for every triangle, also
\* when there is no culling
EmitTriangleOnce(f, triangle, colorID, position, rotation, ownInversion, ownCull) ==
    LET triangleColor == transformColor(colorID, triangle.colorID)
        p1 == transformPoint(position, rotation, triangle.p1)
        p2 == transformPoint(position, rotation, triangle.p2)
        p3 == transformPoint(position, rotation, triangle.p3)
    IN IF ~ownInversion
       THEN SinkAddTriangle(f, triangleColor, p1, p2, p3, triangle)
       ELSE SinkAddTriangle(f, triangleColor, p3, p2, p1, triangle)

\* the body of the loop "Add triangles"
EmitTriangle(f, triangle, colorID, position, rotation, ownInversion, ownCull) ==
    LET triangleColor == transformColor(colorID, triangle.colorID)
        p1 == transformPoint(position, rotation, triangle.p1)
        p2 == transformPoint(position, rotation, triangle.p2)
        p3 == transformPoint(position, rotation, triangle.p3)
        f1 == IF ~ownInversion \/ ~ownCull
              THEN SinkAddTriangle(f, triangleColor, p1, p2, p3, triangle) ELSE f
    IN IF ownInversion \/ ~ownCull
       THEN SinkAddTriangle(f1, triangleColor, p3, p2, p1, triangle) ELSE f1

RECURSIVE EmitTriangles(_, _, _, _, _, _, _)
EmitTriangles(f, triangles, colorID, position, rotation, ownInversion, ownCull) ==
    IF triangles = <<>> THEN f
    ELSE EmitTriangles(EmitTriangle(f, Head(triangles), colorID, position,
                                    rotation, ownInversion, ownCull),
                       Tail(triangles), colorID, position, rotation,
                       ownInversion, ownCull)

\* the loop "Add conditional lines"
RECURSIVE EmitConditionalLines(_, _, _, _, _)
EmitConditionalLines(f, cls, colorID, position, rotation) ==
    IF cls = <<>> THEN f
    ELSE LET cl == Head(cls) IN
         EmitConditionalLines(
             SinkAddConditionalLine(f, transformColor(colorID, cl.colorID),
                                    transformPoint(position, rotation, cl.p1),
                                    transformPoint(position, rotation, cl.p2),
                                    transformPoint(position, rotation, cl.p3),
                                    transformPoint(position, rotation, cl.p4), cl),
             Tail(cls), colorID, position, rotation)

\* the input of one LDRStep.generateThreePart call
StepContext(colorID, position, rotation, cull, invertCCW, parentIsDat, selfIsDat) ==
    [colorID |-> colorID, position |-> position, rotation |-> rotation,
     cull |-> cull, invertCCW |-> invertCCW, parentIsDat |-> parentIsDat,
     selfIsDat |-> selfIsDat]

RECURSIVE PartTypeGenerateThreePart(_, _, _, _, _, _, _, _, _, _)
RECURSIVE StepGenerateThreePart(_, _, _, _, _)
RECURSIVE StepGenerateThreePartBakingAnyLeaf(_, _, _, _, _)
RECURSIVE handleSubModel(_, _, _, _, _, _)
RECURSIVE HandleSubModels(_, _, _, _, _, _)

\* handleSubModel going on with the part type itself when its replacement is
\* not in the registry
handleSubModelIgnoringLostReplacement(reg, f0, subModelDesc, cx, ownCull, depth) ==
    LET subModelInversion == cx.invertCCW # subModelDesc.invertCCW
        subModelCull == subModelDesc.cull /\ ownCull
        subModelColor == transformColor(cx.colorID, subModelDesc.colorID)
        found == Lookup(reg, subModelDesc.ID)
        f == Logged(f0, [call |-> "handleSubModel", ID |-> subModelDesc.ID,
                         source |-> subModelDesc])
    IN IF found = Undefined THEN Throw(f, "UnloadedSubmodelException")
       ELSE LET replaced == IsPartType(found) /\ found.replacement # UndefinedID
                replacementSubModel ==
                    IF replaced THEN Lookup(reg, found.replacement) ELSE Undefined
            IN IF FALSE
               THEN Throw(f, "UnloadedSubmodelException")
               ELSE LET subModel == IF replaced /\ replacementSubModel # Undefined
                                    THEN replacementSubModel ELSE found
                        nextPosition == transformPoint(cx.position, cx.rotation,
                                                       subModelDesc.position)
                        nextRotation == multiplyMatrices(cx.rotation,
                                                         subModelDesc.rotation)
                    IN IF ~IsPartType(subModel)
                       THEN Throw(f, "TypeError") \* true.generateThreePart(...)
                       ELSE PartTypeGenerateThreePart(reg, subModel, subModelColor,
                                nextPosition, nextRotation, subModelCull,
                                subModelInversion, f, cx.selfIsDat, depth + 1)

\* handleSubModel taking the cull flag of the placement alone
handleSubModelCullingByPlacementAlone(reg, f0, subModelDesc, cx, ownCull, depth) ==
    LET subModelInversion == cx.invertCCW # subModelDesc.invertCCW
        subModelCull == subModelDesc.cull
        subModelColor == transformColor(cx.colorID, subModelDesc.colorID)
        found == Lookup(reg, subModelDesc.ID)
        f == Logged(f0, [call |-> "handleSubModel", ID |-> subModelDesc.ID,
                         source |-> subModelDesc])
    IN IF found = Undefined THEN Throw(f, "UnloadedSubmodelException")
       ELSE LET replaced == IsPartType(found) /\ found.replacement # UndefinedID
                replacementSubModel ==
                    IF replaced THEN Lookup(reg, found.replacement) ELSE Undefined
            IN IF replaced /\ replacementSubModel = Undefined
               THEN Throw(f, "UnloadedSubmodelException")
               ELSE LET subModel == IF replaced THEN replacementSubModel ELSE found
                        nextPosition == transformPoint(cx.position, cx.rotation,
                                                       subModelDesc.position)
                        nextRotation == multiplyMatrices(cx.rotation,
                                                         subModelDesc.rotation)
                    IN IF ~IsPartType(subModel)
                       THEN Throw(f, "TypeError")
                       ELSE PartTypeGenerateThreePart(reg, subModel, subModelColor,
                                nextPosition, nextRotation, subModelCull,
                                subModelInversion, f, cx.selfIsDat, depth + 1)

\* handleSubModel(subModelDesc), within the step call with context cx
handleSubModel(reg, f0, subModelDesc, cx, ownCull, depth) ==
    LET subModelInversion == cx.invertCCW # subModelDesc.invertCCW
        subModelCull == subModelDesc.cull /\ ownCull
        subModelColor == transformColor(cx.colorID, subModelDesc.colorID)
        found == Lookup(reg, subModelDesc.ID)
        f == Logged(f0, [call |-> "handleSubModel", ID |-> subModelDesc.ID,
                         source |-> subModelDesc])
    IN IF found = Undefined THEN Throw(f, "UnloadedSubmodelException")
       ELSE LET replaced == IsPartType(found) /\ found.replacement # UndefinedID
                replacementSubModel ==
                    IF replaced THEN Lookup(reg, found.replacement) ELSE Undefined
            IN IF replaced /\ replacementSubModel = Undefined
               THEN Throw(f, "UnloadedSubmodelException")
               ELSE LET subModel == IF replaced THEN replacementSubModel ELSE found
                        nextPosition == transformPoint(cx.position, cx.rotation,
                                                       subModelDesc.position)
                        nextRotation == multiplyMatrices(cx.rotation,
                                                         subModelDesc.rotation)
                    IN IF ~IsPartType(subModel)
                       THEN Throw(f, "TypeError") \* true.generateThreePart(...)
                       ELSE PartTypeGenerateThreePart(reg, subModel, subModelColor,
                                nextPosition, nextRotation, subModelCull,
                                subModelInversion, f, cx.selfIsDat, depth + 1)

\* the loops "Add submodels"; an exception ends them
HandleSubModels(reg, f, descs, cx, ownCull, depth) ==
    IF descs = <<>> \/ f.error # "none" THEN f
    ELSE HandleSubModels(reg, handleSubModel(reg, f, Head(descs), cx, ownCull, depth),
                         Tail(descs), cx, ownCull, depth)

\* LDRStep.generateThreePart baking for every leaf, whatever its parent
StepGenerateThreePartBakingAnyLeaf(reg, step, cx, f, depth) ==
    LET ownInversion == (determinant(cx.rotation) < 0) # cx.invertCCW
        ownCull == cx.cull /\ step.cull
        f1 == EmitLines(f, step.lines, cx.colorID, cx.position, cx.rotation)
        f2 == EmitTriangles(f1, step.triangles, cx.colorID, cx.position,
                            cx.rotation, ownInversion, ownCull)
        f3 == EmitConditionalLines(f2, step.conditionalLines, cx.colorID,
                                   cx.position, cx.rotation)
        f4 == HandleSubModels(reg, f3, step.ldrs, cx, ownCull, depth)
        f5 == HandleSubModels(reg, f4, step.dats, cx, ownCull, depth)
    IN IF f5.error # "none" THEN f5
       ELSE Logged(IF cx.selfIsDat THEN SinkBakeVertices(f5)
                   ELSE f5,
                   [call |-> "stepExit", idx |-> step.idx])

\* LDRStep.generateThreePart
StepGenerateThreePart(reg, step, cx, f, depth) ==
    LET ownInversion == (determinant(cx.rotation) < 0) # cx.invertCCW
        ownCull == cx.cull /\ step.cull
        f1 == EmitLines(f, step.lines, cx.colorID, cx.position, cx.rotation)
        f2 == EmitTriangles(f1, step.triangles, cx.colorID, cx.position,
                            cx.rotation, ownInversion, ownCull)
        f3 == EmitConditionalLines(f2, step.conditionalLines, cx.colorID,
                                   cx.position, cx.rotation)
        f4 == HandleSubModels(reg, f3, step.ldrs, cx, ownCull, depth)
        f5 == HandleSubModels(reg, f4, step.dats, cx, ownCull, depth)
    IN IF f5.error # "none" THEN f5
       ELSE Logged(IF ~cx.parentIsDat /\ cx.selfIsDat THEN SinkBakeVertices(f5)
                   ELSE f5,
                   [call |-> "stepExit", idx |-> step.idx])

\* the loop of LDRPartType.generateThreePart; an exception ends it
RECURSIVE GenerateSteps(_, _, _, _, _, _, _, _, _, _, _)
GenerateSteps(reg, pt, steps, c, p, r, cull, inv, f, parentIsDat, depth) ==
    IF steps = <<>> \/ f.error # "none" THEN f
    ELSE IF pt.ID = NullID THEN Throw(f, "TypeError") \* null.endsWith('dat')
    ELSE GenerateSteps(reg, pt, Tail(steps), c, p, r, cull, inv,
             StepGenerateThreePart(reg, Head(steps),
                 StepContext(c, p, r, cull, inv, parentIsDat, EndsWith(pt.ID, Dat)),
                 f, depth),
             parentIsDat, depth)

\* LDRPartType.generateThreePart; a recursion deeper than MaxDepth is the
\* overflow of the call stack
PartTypeGenerateThreePart(reg, pt, c, p, r, cull, inv, f, parentIsDat, depth) ==
    IF depth > MaxDepth THEN Throw(f, "RangeError")
    ELSE LET inst == f.insts + 1
             f1 == Logged([f EXCEPT !.insts = inst],
                          [call |-> "enter", inst |-> inst, ID |-> pt.ID,
                           colorID |-> c, position |-> p, rotation |-> r,
                           cull |-> cull, invertCCW |-> inv])
             f2 == GenerateSteps(reg, pt, pt.steps, c, p, r, cull, inv, f1,
                                 parentIsDat, depth)
         IN IF f2.error # "none" THEN f2
            ELSE Logged(f2, [call |-> "exit", inst |-> inst, ID |-> pt.ID])

(***************************************************************************)
(* The files the file provider serves.                                     *)
(***************************************************************************)
IdCDat == <<"c", ".", "d", "a", "t">>
IdADatUpper == <<"A", ".", "D", "A", "T">>

AuthorLine == [lineType |-> 0, parts |-> <<"0", "Author:", "x">>,
               text |-> <<"x">>]
MovedToLine(id) ==
    [lineType |-> 0, parts |-> <<"0", "~Moved", "to", "id">>, text |-> id]

FilesOf(id) ==
    CASE id = IdMLdr ->
           {<<FileLine(IdMLdr), SubModelLine(16, IdADatUpper), Meta(<<"0", "STEP">>),
              SubModelLine(1, IdBDat)>>}
      [] id = IdADat ->
           {<<NameLine(IdADat), Geometry(3, 16, <<PA, PB, PC>>)>>,
            <<NameLine(IdADat), Geometry(2, 24, <<PA, PB>>), Meta(<<"0", "STEP">>),
              SubModelLine(24, IdBDat)>>,
            <<NameLine(IdADat)>>}
      [] id = IdBDat ->
           {<<NameLine(IdBDat), Geometry(5, 24, <<PA, PB, PC, PD>>)>>,
            <<MovedToLine(<<"c">>), NameLine(IdBDat), AuthorLine>>}
      [] id = IdCDat ->
           {<<NameLine(IdCDat), Geometry(3, 4, <<PB, PC, PD>>)>>,
            <<NameLine(IdCDat), Geometry(2, 16, <<PA, PB>>),
              SubModelLine(16, IdBDat), SubModelLine(16, IdSXDatUpper)>>}
      [] id \in {IdSXDat, IdSXDatBackslash} ->
           {<<NameLine(IdSXDatBackslash), Geometry(3, 16, <<PA, PB, PC>>)>>}
      [] OTHER -> {}

FileIds == {IdMLdr, IdADat, IdBDat, IdCDat, IdSXDat, IdSXDatBackslash}

\* the arguments load is called with: top is true for the model file, false
\* for parts; a part is also asked for in upper case
LoadArgs ==
    {<<IdMLdr, TRUE>>, <<IdADat, FALSE>>, <<IdBDat, FALSE>>, <<IdCDat, FALSE>>,
     <<IdADatUpper, FALSE>>, <<IdSXDat, FALSE>>}

(***************************************************************************)
(* SpecFlat: files are requested and delivered, then generateThreePart is  *)
(* called on a registered part type with a new mesh collector.  The walker *)
(* changes nothing of the loader, so the calls of the loader that would    *)
(* follow it are left out.                                                 *)
(***************************************************************************)
Loading == trace.op \in {"init", "load", "fileLoaded", "fileFailed"}

\* the registry has an entry for the identifier load is called with
Seen(id, top) == Has(ldrPartTypes, IF top THEN id ELSE ToLowerCase(id))

\* loader.load(id, top) for an identifier without entry in the registry
LoadCall ==
    /\ Loading
    /\ BagCardinality(fileLoader.loads) < MaxFiles
    /\ \E args \in LoadArgs :
         /\ ~Seen(args[1], args[2])
         /\ LET w == load(World, args[1], args[2]) IN
              /\ Install(w)
              /\ trace' = [op |-> "load", id |-> args[1], top |-> args[2],
                           out |-> w.out]
    /\ UNCHANGED <<partType, meshCollector>>

\* loader.load(id, top) for an identifier that has an entry in the registry
LoadAgainCall ==
    /\ Loading
    /\ \E args \in LoadArgs :
         /\ Seen(args[1], args[2])
         /\ LET w == load(World, args[1], args[2]) IN
              /\ Install(w)
              /\ trace' = [op |-> "load", id |-> args[1], top |-> args[2],
                           out |-> w.out]
    /\ UNCHANGED <<partType, meshCollector>>

\* onFileLoaded(text), the callback of loader.load for the file id
FileLoaded ==
    /\ Loading
    /\ \E id \in pending \ fileLoader.failed : \E text \in FilesOf(id) :
         LET w1 == Parse(World, text)
             w2 == [w1 EXCEPT !.unloadedFiles = @ - 1, !.pending = @ \ {id},
                              !.fileLoader.delivered = @ + 1,
                              !.p = IdleParse]
             w3 == reportProgress(w2, id)
         IN /\ Install(w3)
            /\ trace' = [op |-> "fileLoaded", id |-> id, out |-> w3.out,
                         before |-> unloadedFiles]
    /\ UNCHANGED <<partType, meshCollector>>

\* the FileLoader answers the retrieval of the file id through onError: the
\* loader does nothing more than hand the event to the callback of its user
FileFailed ==
    /\ Loading
    /\ \E id \in pending \ fileLoader.failed :
         /\ fileLoader' = [fileLoader EXCEPT !.failed = @ \cup {id}]
         /\ trace' = [op |-> "fileFailed", id |-> id,
                      out |-> <<[cb |-> "onError", what |-> "load"]>>]
    /\ UNCHANGED <<ldrPartTypes, mainModel, unloadedFiles,
                   loadRelatedFilesImmediately, pending, LDRStepIdx, parse,
                   partType, meshCollector>>

RegisteredPartTypes == {k \in DOMAIN ldrPartTypes : IsPartType(ldrPartTypes[k])}

\* loader.ldrPartTypes[root].generateThreePart(loader, 4, origin, identity,
\*     true, false, new THREE.LDRMeshCollector())
FlattenCall ==
    /\ \E root \in RegisteredPartTypes :
         LET f == PartTypeGenerateThreePart(ldrPartTypes, ldrPartTypes[root], 4,
                      PA, Identity, TRUE, FALSE, Start(LDRMeshCollector), FALSE, 0)
         IN /\ meshCollector' = f.mc
            /\ trace' = [op |-> "flatten", root |-> root, log |-> f.log,
                         error |-> f.error]
    /\ UNCHANGED <<ldrPartTypes, mainModel, unloadedFiles,
                   loadRelatedFilesImmediately, pending, fileLoader, LDRStepIdx, parse,
                   partType>>

NextFlat ==
    \/ LoadCall
    \/ FileLoaded
    \/ FlattenCall

SpecFlat == Init /\ [][NextFlat]_vars

(***************************************************************************)
(* SpecLoad: load calls interleaved with the answers of the FileLoader,    *)
(* deliveries and failures.                                                *)
(***************************************************************************)
NextLoad ==
    \/ LoadCall
    \/ LoadAgainCall
    \/ FileLoaded
    \/ FileFailed

SpecLoad == Init /\ [][NextLoad]_vars

(***************************************************************************)
(* Claims about generateThreePart (SpecFlat).                              *)
(***************************************************************************)
Flattened == trace.op = "flatten"

Log == trace.log

Positions == 1..Len(Log)

SinkCalls == {"addLine", "addTriangle", "addConditionalLine", "bakeVertices"}

\* the identifier has no entry in the registry, or the part type registered
\* for it names a replacement that has none
Unresolvable(id) ==
    \/ Key(id) \notin DOMAIN ldrPartTypes
    \/ /\ ldrPartTypes[Key(id)] # TrueMarker
       /\ ldrPartTypes[Key(id)].replacement # UndefinedID
       /\ Key(ldrPartTypes[Key(id)].replacement) \notin DOMAIN ldrPartTypes

\* C6: when the walker reaches a placement whose target has no entry in the
\* registry, or whose part type has a replacement without entry, the call ends
\* with UnloadedSubmodelException and nothing reaches the mesh collector after
\* that placement.
C6_UnresolvedAborts ==
    Flattened =>
        \A k \in Positions :
            (Log[k].call = "handleSubModel" /\ Unresolvable(Log[k].ID)) =>
                /\ trace.error = "UnloadedSubmodelException"
                /\ \A j \in Positions : j > k => Log[j].call \notin SinkCalls
                /\ k = Len(Log)

\* a call that emitted geometry and then reached a placement of a part type
\* whose replacement is not in the registry
C6_Witness ==
    /\ Flattened
    /\ trace.error = "UnloadedSubmodelException"
    /\ Log[Len(Log)].call = "handleSubModel"
    /\ Key(Log[Len(Log)].ID) \in DOMAIN ldrPartTypes
    /\ \E k \in Positions : Log[k].call \in SinkCalls

\* C7 as stated: when generateThreePart reaches a placement whose target has
\* been requested through load() and not been delivered yet, the call ends with
\* UnloadedSubmodelException.
C7_RequestedButUndelivered ==
    Flattened =>
        \A k \in Positions :
            (Log[k].call = "handleSubModel" /\ Log[k].ID \in pending) =>
                trace.error = "UnloadedSubmodelException"

Max(S) == CHOOSE x \in S : \A y \in S : y <= x

\* the part type instances entered and not left before position k
Open(k) ==
    {Log[i].inst : i \in {i \in 1..(k - 1) : Log[i].call = "enter"}}
    \ {Log[i].inst : i \in {i \in 1..(k - 1) : Log[i].call = "exit"}}

IDOf(inst) ==
    Log[CHOOSE i \in Positions : Log[i].call = "enter" /\ Log[i].inst = inst].ID

EnterPosition(inst) ==
    CHOOSE i \in Positions : Log[i].call = "enter" /\ Log[i].inst = inst

\* the instance inst is a leaf by its identifier and its parent, if any, is not
LeafUnderNonLeaf(inst, others, suffix) ==
    /\ EndsWith(IDOf(inst), suffix)
    /\ others # {} => ~EndsWith(IDOf(Max(others)), suffix)

BakesBetween(i, k) ==
    Cardinality({j \in i..k : Log[j].call = "bakeVertices"})

\* the last call on the mesh collector before position k is bakeVertices
BakeJustBefore(k) ==
    \E j \in 1..(k - 1) :
        /\ Log[j].call = "bakeVertices"
        /\ \A i \in (j + 1)..(k - 1) : Log[i].call = "stepExit"

\* C8 as stated: bakeVertices is invoked exactly once for each instance of a
\* leaf part type (.dat) whose parent is not a leaf, when the flattening of the
\* instance completes, and at no other time, whatever the number of its steps.
C8_OncePerLeafInstance ==
    (Flattened /\ trace.error = "none") =>
        /\ \A k \in Positions :
              (/\ Log[k].call = "exit"
               /\ LeafUnderNonLeaf(Log[k].inst, Open(k) \ {Log[k].inst}, DotDat))
              => /\ BakesBetween(EnterPosition(Log[k].inst), k) = 1
                 /\ BakeJustBefore(k)
        /\ \A j \in Positions :
              Log[j].call = "bakeVertices" =>
                  \E k \in Positions :
                      /\ k > j
                      /\ Log[k].call = "exit"
                      /\ LeafUnderNonLeaf(Log[k].inst, Open(k) \ {Log[k].inst},
                                          DotDat)
                      /\ \A i \in (j + 1)..(k - 1) : Log[i].call = "stepExit"

\* the step that ends at position k belongs to a leaf instance (identifier
\* ending in "dat") whose parent is not a leaf
LeafStepExit(k) ==
    /\ Log[k].call = "stepExit"
    /\ LeafUnderNonLeaf(Max(Open(k)), Open(k) \ {Max(Open(k))}, Dat)

\* C8 amended: bakeVertices is invoked exactly once for each step of each
\* instance of a leaf part type (identifier ending in "dat") whose parent is not
\* a leaf, as the last thing of that step after its sub models, and at no other
\* time: an instance with n steps is baked n times, one without steps never.
C8_OncePerLeafStep ==
    Flattened =>
        /\ \A k \in Positions :
              Log[k].call = "stepExit" =>
                  (LeafStepExit(k) <=> (k > 1 /\ Log[k - 1].call = "bakeVertices"))
        /\ \A j \in Positions :
              Log[j].call = "bakeVertices" =>
                  (j < Len(Log) /\ Log[j + 1].call = "stepExit")

\* a completed call with a leaf instance of two steps, baked twice, that holds
\* a leaf of its own, not baked
C8_Witness ==
    /\ Flattened
    /\ trace.error = "none"
    /\ \E k \in Positions :
          /\ Log[k].call = "exit"
          /\ LeafUnderNonLeaf(Log[k].inst, Open(k) \ {Log[k].inst}, Dat)
          /\ BakesBetween(EnterPosition(Log[k].inst), k) = 2
    /\ \E k \in Positions : Log[k].call = "stepExit" /\ ~LeafStepExit(k)
                                /\ Cardinality(Open(k)) >= 2

(***************************************************************************)
(* Claims about load, onFileLoaded and reportProgress (SpecLoad).          *)
(***************************************************************************)
\* the callbacks invoked by the last call of load or onFileLoaded
Callbacks == IF trace.op \in {"load", "fileLoaded"} THEN trace.out ELSE <<>>

OnLoadCalls == {k \in 1..Len(Callbacks) : Callbacks[k].cb = "onLoad"}

\* the retrievals handed to the FileLoader and not delivered (the ones that
\* failed are among them)
Outstanding == BagCardinality(fileLoader.loads) - fileLoader.delivered

\* C11: over the interleavings of load calls and deliveries, onLoad is invoked
\* only while unloadedFiles is zero, it is invoked by every delivery that
\* brings unloadedFiles back to zero, and unloadedFiles is the number of
\* retrievals requested and not delivered, never negative.
C11_CounterAndOnLoad ==
    /\ unloadedFiles = Outstanding
    /\ unloadedFiles >= 0
    /\ \A k \in OnLoadCalls : Callbacks[k].unloadedFiles = 0
    /\ (trace.op = "fileLoaded" /\ unloadedFiles = 0) =>
           /\ Callbacks # <<>>
           /\ Last(Callbacks).cb = "onLoad"
    /\ unloadedFiles # 0 => OnLoadCalls = {}

\* the second delivery that brings the counter back to zero, after a delivery
\* that left another retrieval outstanding
C11_Witness ==
    /\ trace.op = "fileLoaded"
    /\ trace.before = 1
    /\ unloadedFiles = 0
    /\ fileLoader.delivered >= 2
    /\ BagCardinality(fileLoader.loads) >= 2
    /\ OnLoadCalls # {}

\* the identifier the last load call worked with
LoadedId == IF trace.top THEN trace.id ELSE ToLowerCase(trace.id)

\* C12: a load call for an identifier that has an entry in the registry (as
\* requested or as registered) hands nothing to the FileLoader, leaves
\* unloadedFiles and the registry as they are and invokes onProgress with the
\* identifier; so the FileLoader gets at most one load per identifier, also
\* when it answered the first one with onError.
C12_SeenLoadIsNoOp ==
    /\ [][(trace'.op = "load" /\ Has(ldrPartTypes, LoadedId')) =>
              /\ fileLoader' = fileLoader
              /\ unloadedFiles' = unloadedFiles
              /\ ldrPartTypes' = ldrPartTypes
              /\ pending' = pending
              /\ \E k \in 1..Len(trace'.out) :
                     trace'.out[k] = [cb |-> "onProgress", id |-> LoadedId']]_vars
    /\ [](\A r, q \in BagToSet(fileLoader.loads) :
              /\ CopiesIn(r, fileLoader.loads) = 1
              /\ r.id = q.id => r = q)

\* a load call for an identifier whose retrieval has failed, written in upper
\* case, after which the FileLoader still has got one load for it
C12_Witness ==
    /\ trace.op = "load"
    /\ trace.id = IdADatUpper
    /\ LoadedId \in fileLoader.failed
    /\ \E r \in BagToSet(fileLoader.loads) : r.id = LoadedId
    /\ [cb |-> "onProgress", id |-> LoadedId] \in {trace.out[k] : k \in 1..Len(trace.out)}

(***************************************************************************)
(* Claims about colours and transforms in generateThreePart (SpecFlat).    *)
(***************************************************************************)
AddCalls == {"addLine", "addTriangle", "addConditionalLine"}

\* C13 as stated: in a call of generateThreePart started with a colour below
\* 10000, every colour that reaches addLine, addTriangle or addConditionalLine
\* is a colour C below 10000 or C + 10000: the edge offset is applied at most
\* once along a chain of nested placements.
C13_EdgeOffsetOnce ==
    Flattened =>
        \A k \in Positions :
            Log[k].call \in AddCalls =>
                /\ Log[k].colorID >= 0
                /\ Log[k].colorID < 2 * EdgeOffset

\* the colour context of the part type instance that is innermost at position
\* k of the log: the colour it was entered with
ContextAt(k) == Log[EnterPosition(Max(Open(k)))].colorID

\* the colour the claim gives a record of source colour s under context K
Substituted(K, s) ==
    CASE s = 16 -> K
      [] s = 24 -> K + EdgeOffset
      [] OTHER -> s

\* C14: under the colour context K, a primitive or placement of source colour
\* 16 is emitted or instantiated with K, one of source colour 24 with
\* K + 10000, and one of any other colour with its own colour.
C14_ColourSubstitution ==
    Flattened =>
        \A k \in Positions :
            /\ Log[k].call \in AddCalls =>
                   Log[k].colorID = Substituted(ContextAt(k), Log[k].source.colorID)
            /\ (Log[k].call = "handleSubModel" /\ k < Len(Log)) =>
                   /\ Log[k + 1].call = "enter"
                   /\ Log[k + 1].colorID
                          = Substituted(ContextAt(k), Log[k].source.colorID)

\* a completed call with context 4 in which a placement of colour 16 is
\* instantiated in colour 4, a placement of colour 1 in colour 1, and an edge
\* line (24) is emitted in colour 10004
C14_Witness ==
    /\ Flattened
    /\ trace.error = "none"
    /\ \E k \in Positions :
          /\ Log[k].call = "handleSubModel"
          /\ Log[k].source.colorID = 16
          /\ ContextAt(k) = 4
          /\ Log[k + 1].colorID = 4
    /\ \E k \in Positions :
          /\ Log[k].call = "handleSubModel"
          /\ Log[k].source.colorID = 1
          /\ Log[k + 1].colorID = 1
    /\ \E k \in Positions :
          /\ Log[k].call \in AddCalls
          /\ Log[k].source.colorID = 24
          /\ Log[k].colorID = 4 + EdgeOffset

(***************************************************************************)
(* SpecNest: three files are parsed, a model that places a part, which     *)
(* places a part of one line, and the model is flattened; a second model   *)
(* that places the inner part directly is flattened beside it.             *)
(***************************************************************************)
RotZ90 == <<0, -1, 0, 1, 0, 0, 0, 0, 1>>
RotZ180 == <<-1, 0, 0, 0, -1, 0, 0, 0, 1>>
RotX90 == <<1, 0, 0, 0, 0, -1, 0, 1, 0>>
Scale2 == <<2, 0, 0, 0, 2, 0, 0, 0, 2>>

NestRotations == {Identity, RotZ90, RotX90, Scale2}
NestPositions == {PA, <<1, 2, 3>>, <<0, -5, 0>>}
NestPoints == {PB, <<1, 2, 3>>}

PlacementLine(c, position, rotation, id) ==
    [lineType |-> 1, colorID |-> c, position |-> position,
     rotation |-> rotation, subModelID |-> id]

\* the loader after the parse calls for the texts, in order
RECURSIVE ParseAll(_, _)
ParseAll(w, texts) ==
    IF texts = <<>> THEN w
    ELSE ParseAll([Parse(w, Head(texts)) EXCEPT !.p = IdleParse], Tail(texts))

\* m.ldr places a.dat by (r1, t1), a.dat places b.dat by (r2, t2), b.dat is the
\* line from p to the origin
NestedFiles(r1, t1, r2, t2, p) ==
    <<<<FileLine(IdMLdr), PlacementLine(16, t1, r1, IdADat)>>,
      <<NameLine(IdADat), PlacementLine(16, t2, r2, IdBDat)>>,
      <<NameLine(IdBDat), Geometry(2, 16, <<p, PA>>)>>>>

\* m.ldr places b.dat by (r, t)
SingleFiles(r, t, p) ==
    <<<<FileLine(IdMLdr), PlacementLine(16, t, r, IdBDat)>>,
      <<NameLine(IdBDat), Geometry(2, 16, <<p, PA>>)>>>>

\* matrix times vector and matrix times matrix, by rows and columns
Entry(m, i, j) == m[3 * (i - 1) + j]
MatVec(m, v) ==
    [i \in 1..3 |-> Entry(m, i, 1) * v[1] + Entry(m, i, 2) * v[2]
                    + Entry(m, i, 3) * v[3]]
MatMul(a, b) ==
    [n \in 1..9 |->
        LET i == ((n - 1) \div 3) + 1
            j == ((n - 1) % 3) + 1
        IN Entry(a, i, 1) * Entry(b, 1, j) + Entry(a, i, 2) * Entry(b, 2, j)
           + Entry(a, i, 3) * Entry(b, 3, j)]
VecAdd(v, u) == [i \in 1..3 |-> v[i] + u[i]]

\* the points of the add calls of a log, in order
EmittedPoints(log) ==
    LET calls == SelectSeq(log, LAMBDA e : e.call \in AddCalls)
    IN [k \in 1..Len(calls) |-> calls[k].pts]

FlattenMainModel(w) ==
    PartTypeGenerateThreePart(w.ldrPartTypes, Lookup(w.ldrPartTypes, w.mainModel),
        4, PA, Identity, TRUE, FALSE, Start(LDRMeshCollector), FALSE, 0)

NestedFlattenCall ==
    /\ trace.op = "init"
    /\ \E r1 \in NestRotations, r2 \in NestRotations, t1 \in NestPositions,
          t2 \in NestPositions, p \in NestPoints :
         LET w == ParseAll(World, NestedFiles(r1, t1, r2, t2, p))
             f == FlattenMainModel(w)
             single == ParseAll(World, SingleFiles(MatMul(r1, r2),
                                    VecAdd(MatVec(r1, t2), t1), p))
             g == FlattenMainModel(single)
         IN /\ Install(w)
            /\ meshCollector' = f.mc
            /\ trace' = [op |-> "nested", r1 |-> r1, t1 |-> t1, r2 |-> r2,
                         t2 |-> t2, p |-> p, error |-> f.error,
                         nested |-> EmittedPoints(f.log),
                         single |-> EmittedPoints(g.log)]
    /\ UNCHANGED partType

NextNest == NestedFlattenCall

SpecNest == Init /\ [][NextNest]_vars

\* C15: a point p reached through the placement (r1, t1) of a part that holds
\* the placement (r2, t2) is emitted at r1 (r2 p + t2) + t1, the point emitted
\* through the one placement (r1 r2, r1 t2 + t1); two nested rotations by 90
\* degrees about an axis give the points of one rotation by 180 degrees.
C15_NestedTransform ==
    trace.op = "nested" =>
        LET through(q) ==
                VecAdd(MatVec(trace.r1, VecAdd(MatVec(trace.r2, q), trace.t2)),
                       trace.t1)
        IN /\ trace.error = "none"
           /\ trace.nested = <<<<through(trace.p), through(PA)>>>>
           /\ trace.nested = trace.single

\* two nested rotations by 90 degrees about z, the inner one placed off the
\* origin: the point (1, 2, 3) comes out as by the rotation by 180 degrees
C15_Witness ==
    /\ trace.op = "nested"
    /\ trace.r1 = RotZ90
    /\ trace.r2 = RotZ90
    /\ trace.t1 = <<1, 2, 3>>
    /\ trace.t2 = <<0, -5, 0>>
    /\ trace.p = <<1, 2, 3>>
    /\ MatMul(trace.r1, trace.r2) = RotZ180
    /\ trace.nested[1][1]
           = VecAdd(MatVec(RotZ180, trace.p), VecAdd(MatVec(RotZ90, trace.t2), trace.t1))

(***************************************************************************)
(* THREE.ConditionalLineEvaluator.prototype.getNormalizedABC, over points  *)
(* of integer coordinates.  A normalized vector is kept as its direction:  *)
(* the coordinates divided by their greatest common divisor (two vectors   *)
(* have the same normalized vector exactly when they have the same         *)
(* direction); the normalized zero vector is the zero vector.              *)
(***************************************************************************)
Abs(n) == IF n < 0 THEN -n ELSE n

RECURSIVE Gcd(_, _)
Gcd(a, b) == IF b = 0 THEN a ELSE Gcd(b, a % b)

\* Vector3.normalize
normalize(v) ==
    LET g == Gcd(Gcd(Abs(v[1]), Abs(v[2])), Abs(v[3]))
    IN IF g = 0 THEN v ELSE <<v[1] \div g, v[2] \div g, v[3] \div g>>

\* Vector3.subVectors, Vector3.sub
subVectors(v, u) == <<v[1] - u[1], v[2] - u[2], v[3] - u[3]>>

\* Vector3.negate
negate(v) == <<-v[1], -v[2], -v[3]>>

\* Vector3.distanceToSquared
distanceToSquared(v, u) ==
    (v[1] - u[1]) * (v[1] - u[1]) + (v[2] - u[2]) * (v[2] - u[2])
    + (v[3] - u[3]) * (v[3] - u[3])

\* v.x < 0 || (v.x == 0 && v.y < 0) || (v.x == 0 && v.y == 0 && v.z < 0)
Negative(v) ==
    \/ v[1] < 0
    \/ v[1] = 0 /\ v[2] < 0
    \/ v[1] = 0 /\ v[2] = 0 /\ v[3] < 0

\* getNormalizedABC, up to the three normalize calls and with them
getNormalizedABC(line) ==
    LET det == subVectors(line.p3, line.p4)
        b0 == IF Negative(det) THEN line.p4 ELSE line.p3
        c0 == IF Negative(det) THEN line.p3 ELSE line.p4
        first == distanceToSquared(line.p1, b0) < distanceToSquared(line.p2, b0)
        a1 == IF first THEN subVectors(line.p1, line.p2)
              ELSE subVectors(line.p2, line.p1)
        b1 == subVectors(b0, IF first THEN line.p1 ELSE line.p2)
        c1 == subVectors(c0, IF first THEN line.p1 ELSE line.p2)
        a2 == IF Negative(a1) THEN negate(a1) ELSE a1
        b2 == IF Negative(b1) THEN negate(b1) ELSE b1
        c2 == IF Negative(b1) THEN negate(c1) ELSE c1
    IN <<normalize(a2), normalize(b2), normalize(c2)>>

(***************************************************************************)
(* SpecABC: getNormalizedABC is called for a conditional line, for the     *)
(* line with its end points swapped and for the line with its control      *)
(* points swapped.                                                         *)
(***************************************************************************)
ABCPoints == {<<0, 0, 0>>, <<2, 0, 0>>, <<1, 1, 0>>, <<1, -1, 0>>, <<0, 3, 1>>}

ConditionalLine(p1, p2, p3, p4) == [p1 |-> p1, p2 |-> p2, p3 |-> p3, p4 |-> p4]

GetNormalizedABCCall ==
    /\ trace.op = "init"
    /\ \E p1 \in ABCPoints, p2 \in ABCPoints, p3 \in ABCPoints, p4 \in ABCPoints :
         trace' = [op |-> "getNormalizedABC",
                   line |-> ConditionalLine(p1, p2, p3, p4),
                   abc |-> getNormalizedABC(ConditionalLine(p1, p2, p3, p4)),
                   endPointsSwapped |->
                       getNormalizedABC(ConditionalLine(p2, p1, p3, p4)),
                   controlPointsSwapped |->
                       getNormalizedABC(ConditionalLine(p1, p2, p4, p3))]
    /\ UNCHANGED <<ldrPartTypes, mainModel, unloadedFiles,
                   loadRelatedFilesImmediately, pending, fileLoader, LDRStepIdx,
                   parse, partType, meshCollector>>

NextABC == GetNormalizedABCCall

SpecABC == Init /\ [][NextABC]_vars

\* C16 as stated: getNormalizedABC returns the same (a, b, c) for the line
\* (p1, p2, p3, p4), for (p2, p1, p3, p4) and for (p1, p2, p4, p3).
C16_PermutationInvariant ==
    trace.op = "getNormalizedABC" =>
        /\ trace.endPointsSwapped = trace.abc
        /\ trace.controlPointsSwapped = trace.abc

\* the end points are equally far from the control point getNormalizedABC
\* takes for b
EquallyFar ==
    LET l == trace.line
        b == IF Negative(subVectors(l.p3, l.p4)) THEN l.p4 ELSE l.p3
    IN distanceToSquared(l.p1, b) = distanceToSquared(l.p2, b)

\* the result is the same with the control points swapped, and with the end
\* points swapped when one of them is nearer to b than the other
ABCInvariantWithoutTie ==
    trace.op = "getNormalizedABC" =>
        /\ trace.controlPointsSwapped = trace.abc
        /\ ~EquallyFar => trace.endPointsSwapped = trace.abc

(***************************************************************************)
(* Claims about colours, names and identifiers in parse.                   *)
(***************************************************************************)
\* the colours of the records of a step
StepColors(step) ==
    {step.ldrs[k].colorID : k \in 1..Len(step.ldrs)}
    \cup {step.dats[k].colorID : k \in 1..Len(step.dats)}
    \cup {step.lines[k].colorID : k \in 1..Len(step.lines)}
    \cup {step.triangles[k].colorID : k \in 1..Len(step.triangles)}
    \cup {step.conditionalLines[k].colorID : k \in 1..Len(step.conditionalLines)}

PartTypeColors(pt) == UNION {StepColors(pt.steps[k]) : k \in 1..Len(pt.steps)}

\* the colours stored by the running parse call and in the registry
StoredColors ==
    (IF parse.pc = "idle" THEN {}
     ELSE PartTypeColors(parse.part) \cup StepColors(parse.step)
          \cup UNION {StepColors(parse.extraSteps[k].step) :
                        k \in 1..Len(parse.extraSteps)})
    \cup UNION {PartTypeColors(ldrPartTypes[k]) : k \in RegisteredPartTypes}

\* the records of a step, each with its list and its place in the list
StepRecords(step) ==
    {<<"ldrs", step.idx, k, step.ldrs[k]>> : k \in 1..Len(step.ldrs)}
    \cup {<<"dats", step.idx, k, step.dats[k]>> : k \in 1..Len(step.dats)}
    \cup {<<"lines", step.idx, k, step.lines[k]>> : k \in 1..Len(step.lines)}
    \cup {<<"triangles", step.idx, k, step.triangles[k]>> :
             k \in 1..Len(step.triangles)}
    \cup {<<"conditionalLines", step.idx, k, step.conditionalLines[k]>> :
             k \in 1..Len(step.conditionalLines)}

\* the records of the step and of the extra steps of the running parse call
OpenRecords ==
    StepRecords(parse.step)
    \cup UNION {StepRecords(parse.extraSteps[k].step) :
                  k \in 1..Len(parse.extraSteps)}

Warnings ==
    {k \in 1..Len(trace.out) : trace.out[k].cb = "onWarning"}

UnknownColorLine ==
    /\ trace.op = "line"
    /\ trace.line.lineType \in 1..5
    /\ trace.line.colorID \notin LDRColors

\* C17: a line of type 1-5 whose colour is not in the colour table gets one
\* warning and the colour 0, and the parse call goes on; every colour stored
\* in a placement, line, triangle or conditional line is a key of the colour
\* table.
C17_UnknownColor ==
    /\ [][UnknownColorLine' =>
              /\ Cardinality(Warnings') = 1
              /\ OpenRecords' \ OpenRecords # {}
              /\ \A r \in OpenRecords' \ OpenRecords : r[4].colorID = 0
              /\ parse'.pc = "lines"]_vars
    /\ [](StoredColors \subseteq LDRColors)

\* the third line of a text of three lines with colours the table does not
\* have: a placement, stored with colour 0 after two such lines
C17_Witness ==
    /\ UnknownColorLine
    /\ trace.line.lineType = 1
    /\ parse.i = 3
    /\ StoredColors = {0}
    /\ Len(parse.step.lines) + Len(parse.step.triangles)
           + Len(parse.step.conditionalLines) >= 2

FileStartLine ==
    /\ trace.op = "line"
    /\ trace.line.lineType = 0
    /\ Len(trace.line.parts) >= 3
    /\ trace.line.parts[2] \in {"FILE", "file", "Name:"}

Backslashes(id) == {k \in 1..Len(id) : id[k] = "\\"}

\* C18 as stated: the identifier a part type gets from a FILE or Name: line is
\* in lower case and has no backslash, however many the name has.
C18_NameNormalized ==
    FileStartLine =>
        /\ parse.part.ID = ToLowerCase(parse.part.ID)
        /\ Backslashes(parse.part.ID) = {}

\* the identifier in lower case with every backslash turned into a slash
Normalized(id) ==
    [k \in 1..Len(id) |-> IF ToLowerCase(id)[k] = "\\" THEN "/" ELSE ToLowerCase(id)[k]]

\* the registry holds a part type, without replacement, declared under the
\* name the reference is written with
Declared(ref) ==
    /\ IsPartType(Lookup(ldrPartTypes, Normalized(ref)))
    /\ Lookup(ldrPartTypes, Normalized(ref)).ID = Normalized(ref)
    /\ Lookup(ldrPartTypes, Normalized(ref)).replacement = UndefinedID

\* the placement at position k of the log is followed by the part type of the
\* name it is written with (unless the call stack is exhausted there)
ResolvesAt(k) ==
    \/ /\ k < Len(Log)
       /\ Log[k + 1].call = "enter"
       /\ Log[k + 1].ID = Normalized(Log[k].source.ID)
    \/ k = Len(Log) /\ trace.error = "RangeError"

\* C19 as stated: a placement whose target is written in any letter case and
\* with backslashes resolves, when the model is flattened, to the part type
\* declared by a FILE or Name: line for the same name.
C19_ReferenceResolves ==
    Flattened =>
        \A k \in Positions :
            (Log[k].call = "handleSubModel" /\ Declared(Log[k].source.ID)) =>
                ResolvesAt(k)

\* references without backslash resolve to the part type declared for them
ResolvesWithoutBackslash ==
    Flattened =>
        \A k \in Positions :
            (/\ Log[k].call = "handleSubModel"
             /\ Declared(Log[k].source.ID)
             /\ Backslashes(Log[k].source.ID) = {}) =>
                ResolvesAt(k)

\* the placements of a part type
Placements(pt) ==
    UNION {{pt.steps[k].ldrs[n] : n \in 1..Len(pt.steps[k].ldrs)}
           \cup {pt.steps[k].dats[n] : n \in 1..Len(pt.steps[k].dats)} :
           k \in 1..Len(pt.steps)}

\* the key of the part type a placement of the identifier id leads to, through
\* the replacement of the part type registered for id if it has one
TargetKeys(id) ==
    LET found == Lookup(ldrPartTypes, id) IN
    IF ~IsPartType(found) THEN {}
    ELSE IF found.replacement = UndefinedID THEN {Key(id)}
    ELSE IF IsPartType(Lookup(ldrPartTypes, found.replacement))
    THEN {Key(found.replacement)}
    ELSE {}

\* the placement graph over the keys of the registry
Successors(key) ==
    UNION {TargetKeys(d.ID) : d \in Placements(ldrPartTypes[key])}

RECURSIVE ReachableFrom(_)
ReachableFrom(keys) ==
    LET more == keys \cup UNION {Successors(k) : k \in keys}
    IN IF more = keys THEN keys ELSE ReachableFrom(more)

\* a part type reachable from the root is reachable from its own placements
Cyclic(root) ==
    \E k \in ReachableFrom({root}) : k \in ReachableFrom(Successors(k))

\* C20 as stated: a generateThreePart call ends on every registry: with an
\* acyclic placement graph (replacements included) it returns after finitely
\* many calls on the mesh collector, and when a part type places itself
\* transitively it fails with an error and does not recurse until the call
\* stack is exhausted.
C20_FailsOnCycle ==
    Flattened =>
        /\ Cyclic(trace.root) => trace.error # "none"
        /\ trace.error # "RangeError"

\* over an acyclic placement graph the call never exhausts the call stack
AcyclicWithinStack ==
    (Flattened /\ ~Cyclic(trace.root)) => trace.error # "RangeError"

\* over a cyclic placement graph the call ends with the call stack exhausted
\* or with an unresolved placement met before
CyclicEndsInError ==
    (Flattened /\ Cyclic(trace.root)) => trace.error # "none"

(***************************************************************************)
(* SpecCull: three files are parsed, a model that places a part, which     *)
(* places a part of one triangle; each of the two placements is read with  *)
(* or without BFC NOCLIP and BFC INVERTNEXT in force, in a step that has   *)
(* or has not a triangle read under NOCLIP, and the part has an optional   *)
(* later step read under NOCLIP.  The model is flattened with either value *)
(* of cull and invertCCW.                                                  *)
(***************************************************************************)
Mirror == <<-1, 0, 0, 0, 1, 0, 0, 0, 1>>

CullRotations == {Identity, Mirror}

NoClip == Meta(<<"0", "BFC", "NOCLIP">>)
Clip == Meta(<<"0", "BFC", "CLIP">>)
InvertNext == Meta(<<"0", "BFC", "INVERTNEXT">>)

Triangle == Geometry(3, 16, <<PA, PB, PC>>)

\* the options of a file that places another: o.step, the step of the
\* placement holds a triangle read under NOCLIP; o.place, the placement is read
\* under NOCLIP; o.invert, INVERTNEXT before the placement; o.rotation, its
\* rotation; o.other, a later step with a triangle read under NOCLIP
PlacingOptions ==
    [step : BOOLEAN, place : BOOLEAN, invert : BOOLEAN, other : BOOLEAN,
     rotation : CullRotations]

PlacingText(header, o, target) ==
    <<header>>
    \o (IF o.step THEN <<NoClip, Triangle>> ELSE <<>>)
    \o (IF o.step /\ ~o.place THEN <<Clip>>
        ELSE IF ~o.step /\ o.place THEN <<NoClip>> ELSE <<>>)
    \o (IF o.invert THEN <<InvertNext>> ELSE <<>>)
    \o <<PlacementLine(16, PA, o.rotation, target)>>
    \o (IF o.other THEN <<Meta(<<"0", "STEP">>), NoClip, Triangle>> ELSE <<>>)

\* the model has one step
ModelOptions == {o \in PlacingOptions : ~o.other}

ParseOne(w, text) == [Parse(w, text) EXCEPT !.p = IdleParse]

\* parse(text) for the model m.ldr, which places a.dat
CullParseModel ==
    /\ trace.op = "init"
    /\ \E o \in ModelOptions :
         Install(ParseOne(World, PlacingText(FileLine(IdMLdr), o, IdADat)))
    /\ trace' = [op |-> "cullModel"]
    /\ UNCHANGED <<partType, meshCollector>>

\* parse(text) for the part a.dat, which places b.dat
CullParsePart ==
    /\ trace.op = "cullModel"
    /\ \E o \in PlacingOptions :
         Install(ParseOne(World, PlacingText(NameLine(IdADat), o, IdBDat)))
    /\ trace' = [op |-> "cullPart"]
    /\ UNCHANGED <<partType, meshCollector>>

\* parse(text) for the part b.dat, a triangle
CullParseLeaf ==
    /\ trace.op = "cullPart"
    /\ \E noClip \in BOOLEAN :
         Install(ParseOne(World, <<NameLine(IdBDat)>>
                                 \o (IF noClip THEN <<NoClip>> ELSE <<>>)
                                 \o <<Triangle>>))
    /\ trace' = [op |-> "cullLeaf"]
    /\ UNCHANGED <<partType, meshCollector>>

\* ldrPartTypes[mainModel].generateThreePart(loader, 4, origin, identity, cull,
\*     invertCCW, new THREE.LDRMeshCollector())
CullFlattenCall ==
    /\ trace.op = "cullLeaf"
    /\ \E cull \in BOOLEAN, invertCCW \in BOOLEAN :
         LET f == PartTypeGenerateThreePart(ldrPartTypes,
                      Lookup(ldrPartTypes, mainModel), 4, PA, Identity, cull,
                      invertCCW, Start(LDRMeshCollector), FALSE, 0)
         IN /\ meshCollector' = f.mc
            /\ trace' = [op |-> "flatten", root |-> Key(mainModel),
                         log |-> f.log, error |-> f.error, cull |-> cull,
                         invertCCW |-> invertCCW]
    /\ UNCHANGED <<ldrPartTypes, mainModel, unloadedFiles,
                   loadRelatedFilesImmediately, pending, fileLoader, LDRStepIdx,
                   parse, partType>>

NextCull ==
    \/ CullParseModel
    \/ CullParsePart
    \/ CullParseLeaf
    \/ CullFlattenCall

SpecCull == Init /\ [][NextCull]_vars

\* the part type instances of the log, and what the log tells of one
Instances == {Log[k].inst : k \in {k \in Positions : Log[k].call = "enter"}}

\* the instances the instance inst is nested in
Enclosing(inst) == Open(EnterPosition(inst))

\* the placement the instance inst was entered for (inst is not the root)
PlacementOf(inst) == Log[EnterPosition(inst) - 1].source

\* the number, within the part type of the instance inst, of the step in
\* progress at position k: one more than the steps of inst that ended before
StepNumberAt(inst, k) ==
    1 + Cardinality({j \in EnterPosition(inst)..(k - 1) :
                        Log[j].call = "stepExit" /\ Max(Open(j)) = inst})

StepAt(inst, k) == ldrPartTypes[Key(IDOf(inst))].steps[StepNumberAt(inst, k)]

\* the step that contains the placement the instance inst was entered for
StepOfPlacement(inst) ==
    StepAt(Max(Enclosing(inst)), EnterPosition(inst))

\* the instances on the path from below the root to inst, inst included
PathTo(inst) == (Enclosing(inst) \cup {inst}) \ {1}

CullOf(inst) == Log[EnterPosition(inst)].cull

\* C21: the cull flag a part type instance is entered with is the conjunction
\* of the cull argument of the root call with, for every placement on the path
\* to the instance, the cull flag of the placement and the cull flag of the
\* step that contains it; an instance below one entered with cull false is
\* entered with cull false.
C21_CullConjunction ==
    Flattened =>
        \A inst \in Instances :
            /\ CullOf(inst) =
                   (/\ trace.cull
                    /\ \A a \in PathTo(inst) :
                           PlacementOf(a).cull /\ StepOfPlacement(a).cull)
            /\ \A a \in Enclosing(inst) : ~CullOf(a) => ~CullOf(inst)

\* a call with cull true in which the part is entered with cull true, from a
\* step and a placement that both have it, and the inner part with cull false
\* because the step of its placement has lost it while the placement has it;
\* the part has a later step without it
C21_Witness ==
    /\ Flattened
    /\ trace.error = "none"
    /\ trace.cull
    /\ \E a, b \in Instances :
          /\ Enclosing(a) = {1}
          /\ Enclosing(b) = {1, a}
          /\ CullOf(a)
          /\ ~CullOf(b)
          /\ PlacementOf(b).cull
          /\ ~StepOfPlacement(b).cull
          /\ StepNumberAt(a, EnterPosition(b)) = 1
          /\ Len(ldrPartTypes[Key(IDOf(a))].steps) = 2

\* the positions of the addTriangle calls made for the steps of the instance
\* inst itself, and their points in the order of the calls
TrianglePositions(inst) ==
    {k \in Positions : Log[k].call = "addTriangle" /\ Max(Open(k)) = inst}

TriangleCalls(inst) ==
    LET P == TrianglePositions(inst) IN
    [i \in 1..Cardinality(P) |->
        Log[CHOOSE k \in P : Cardinality({j \in P : j <= k}) = i].pts]

RECURSIVE Concat(_)
Concat(seqs) == IF seqs = <<>> THEN <<>> ELSE Head(seqs) \o Concat(Tail(seqs))

\* the invert context of the instance inst: the invertCCW argument of the root
\* call, inverted once for every placement with invertCCW on the path to inst
InvertContext(inst) ==
    XOR(trace.invertCCW,
        Cardinality({a \in PathTo(inst) : PlacementOf(a).invertCCW}) % 2 = 1)

\* the addTriangle calls the claim gives the instance inst: for every triangle
\* of every step, one call if the effective cull is true, forward or reverse by
\* the own inversion, and the two calls, forward then reverse, if it is false
ExpectedTriangleCalls(inst) ==
    LET e == Log[EnterPosition(inst)]
        steps == ldrPartTypes[Key(IDOf(inst))].steps
        at(p) == VecAdd(MatVec(e.rotation, p), e.position)
        ownInversion == XOR(determinant(e.rotation) < 0, InvertContext(inst))
        calls(step, t) ==
            LET forward == <<at(t.p1), at(t.p2), at(t.p3)>>
                reverse == <<at(t.p3), at(t.p2), at(t.p1)>>
            IN IF e.cull /\ step.cull
               THEN IF ownInversion THEN <<reverse>> ELSE <<forward>>
               ELSE <<forward, reverse>>
        ofStep(step) ==
            Concat([n \in 1..Len(step.triangles) |-> calls(step, step.triangles[n])])
    IN Concat([n \in 1..Len(steps) |-> ofStep(steps[n])])

\* C22: for every triangle of every step of every instance, addTriangle is
\* called once when the cull context and the cull flag of the step are both
\* true, with the points in stored order when the own inversion is false and in
\* reverse order when it is true, and twice, stored order then reverse order,
\* otherwise; the own inversion is (determinant < 0) XOR invert context, and
\* the invert context of a child is that of its parent XOR the invertCCW of
\* the placement.
C22_TriangleEmission ==
    (Flattened /\ trace.error = "none") =>
        \A inst \in Instances :
            /\ Log[EnterPosition(inst)].invertCCW = InvertContext(inst)
            /\ TriangleCalls(inst) = ExpectedTriangleCalls(inst)

\* a completed call in which the triangle of the inner part, reached through a
\* mirroring placement and with culling, is added once in reverse order, and a
\* triangle of a step without culling is added twice
C22_Witness ==
    /\ Flattened
    /\ trace.error = "none"
    /\ \E b \in Instances :
          LET e == Log[EnterPosition(b)] IN
          /\ Cardinality(Enclosing(b)) = 2
          /\ e.cull
          /\ determinant(e.rotation) < 0
          /\ ~e.invertCCW
          /\ ldrPartTypes[Key(IDOf(b))].steps[1].cull
          /\ TriangleCalls(b) = <<<<VecAdd(MatVec(e.rotation, PC), e.position),
                                    VecAdd(MatVec(e.rotation, PB), e.position),
                                    VecAdd(MatVec(e.rotation, PA), e.position)>>>>
    /\ \E a \in Instances : Len(TriangleCalls(a)) = 2

(***************************************************************************)
(* THREE.LDRPartDescription.prototype.placeAt (SpecPlace): placeAt is      *)
(* called on a placement with a parent placement.                          *)
(***************************************************************************)
\* this.placeAt(pd)
placeAt(this, pd) ==
    LET colorID == IF this.colorID = 16 \/ this.colorID = 24 THEN pd.colorID
                   ELSE this.colorID
        position == add(applyMatrix3(this.position, pd.rotation), pd.position)
        rotation == multiplyMatrices(pd.rotation, this.rotation)
        invert == this.invertCCW = pd.invertCCW
    IN LDRPartDescription(colorID, position, rotation, this.ID, this.cull, invert)

PlaceColors == {16, 24, 4}
PlacePositions == {PA, <<1, 2, 3>>}
PlaceRotations == {Identity, RotZ90}

PartDescriptions(id) ==
    {LDRPartDescription(c, t, r, id, cull, inv) :
        c \in PlaceColors, t \in PlacePositions, r \in PlaceRotations,
        cull \in BOOLEAN, inv \in BOOLEAN}

PlaceAtCall ==
    /\ trace.op = "init"
    /\ \E q \in PartDescriptions(IdBDat), pd \in PartDescriptions(IdADat) :
         trace' = [op |-> "placeAt", this |-> q, pd |-> pd,
                   result |-> placeAt(q, pd)]
    /\ UNCHANGED <<ldrPartTypes, mainModel, unloadedFiles,
                   loadRelatedFilesImmediately, pending, fileLoader, LDRStepIdx,
                   parse, partType, meshCollector>>

NextPlace == PlaceAtCall

SpecPlace == Init /\ [][NextPlace]_vars

\* the invert context the walker enters a part with, for the placement q met
\* under the invert context of pd (handleSubModel, subModelInversion)
WalkerInvert(q, pd) == pd.invertCCW # q.invertCCW

\* C23 as stated: q.placeAt(pd) returns a placement whose invertCCW is
\* pd.invertCCW XOR q.invertCCW, the composite invert the walker computes for
\* the same pair.
C23_PlaceAtInvert ==
    trace.op = "placeAt" =>
        /\ trace.result.invertCCW = XOR(trace.pd.invertCCW, trace.this.invertCCW)
        /\ trace.result.invertCCW = WalkerInvert(trace.this, trace.pd)

\* position and rotation of the placement placeAt returns are the ones the
\* walker enters the part with, and cull and ID are those of q
PlaceAtTransformAsWalker ==
    trace.op = "placeAt" =>
        /\ trace.result.position
               = transformPoint(trace.pd.position, trace.pd.rotation,
                                trace.this.position)
        /\ trace.result.rotation
               = multiplyMatrices(trace.pd.rotation, trace.this.rotation)
        /\ trace.result.cull = trace.this.cull
        /\ trace.result.ID = trace.this.ID

\* the invert flag placeAt returns is the negation of the walker's
PlaceAtInvertNegated ==
    trace.op = "placeAt" =>
        trace.result.invertCCW = ~WalkerInvert(trace.this, trace.pd)

(***************************************************************************)
(* Claims about placement lines (SpecParse).                               *)
(***************************************************************************)
SubModelLineParsed == trace.op = "line" /\ trace.line.lineType = 1

\* the target of the placement line just parsed, as the parser stores it
TargetParsed == ToLowerCase(trace.line.subModelID)

\* an extra step of the running parse call holds a placement of the target
DeferredNow(id) ==
    \E k \in 1..Len(parse.extraSteps) :
        \E n \in 1..Len(parse.extraSteps[k].step.ldrs) :
            parse.extraSteps[k].step.ldrs[n].ID = id

\* the current step holds a placement of the target among its dats
ImmediateNow(id) ==
    \E n \in 1..Len(parse.step.dats) : parse.step.dats[n].ID = id

\* C24 as stated: a placement line is deferred (kept in an extra step) exactly
\* when isTopLevelModel accepts its target, that is when the target does not
\* end in .dat, and immediate (kept in the current step) exactly when the
\* target ends in .dat.
C24_DeferredIffTopLevel ==
    SubModelLineParsed =>
        /\ DeferredNow(TargetParsed) <=> isTopLevelModel(TargetParsed)
        /\ ImmediateNow(TargetParsed) <=> EndsWith(TargetParsed, DotDat)

\* a placement line is deferred exactly when its target ends in .ldr, and
\* immediate otherwise
DeferredIffLdr ==
    SubModelLineParsed =>
        /\ DeferredNow(TargetParsed) <=> EndsWith(TargetParsed, DotLdr)
        /\ ImmediateNow(TargetParsed) <=> ~EndsWith(TargetParsed, DotLdr)

\* the steps with deferred placements: the extra steps of the running parse
\* call, and the steps built from them in the part and in the registry
ExtraStepsOpen ==
    IF parse.pc = "idle" THEN {}
    ELSE {parse.extraSteps[k].step : k \in 1..Len(parse.extraSteps)}

ExtraStepsBuilt ==
    LET of(pt) == {pt.steps[k] : k \in {k \in 1..Len(pt.steps) :
                                          pt.steps[k].ldrs # <<>>}}
    IN (IF parse.pc = "idle" THEN {} ELSE of(parse.part))
       \cup UNION {of(ldrPartTypes[k]) : k \in RegisteredPartTypes}

\* colour and target of a placement
Pair(d) == <<d.colorID, d.ID>>

PairsOf(step) == {Pair(step.ldrs[n]) : n \in 1..Len(step.ldrs)}

\* C25 as stated: the placements of one extra step all have the same colour
\* and the same target, and two deferred placements of one source step are in
\* the same extra step exactly when colour and target are equal: no two extra
\* steps of the running parse call hold the same pair.
C25_BucketsByColorAndTarget ==
    /\ \A step \in ExtraStepsOpen \cup ExtraStepsBuilt :
           Cardinality(PairsOf(step)) <= 1
    /\ \A s1, s2 \in ExtraStepsOpen :
           s1 # s2 => PairsOf(s1) \cap PairsOf(s2) = {}

\* the placements of one extra step all have the same key string, colour
\* followed by target, and no two extra steps of the running parse call hold
\* the same key string
BucketsByKeyString ==
    LET keys(step) == {ExtraStepKey(d[1], d[2]) : d \in PairsOf(step)} IN
    /\ \A step \in ExtraStepsOpen \cup ExtraStepsBuilt :
           Cardinality(keys(step)) <= 1
    /\ \A s1, s2 \in ExtraStepsOpen : s1 # s2 => keys(s1) \cap keys(s2) = {}

(***************************************************************************)
(* SpecMain: two parse calls on one loader, over FILE and Name: lines and  *)
(* triangles.  The observation keeps whether the part the parse call works *)
(* on is the one the first FILE or Name: line ever parsed has named        *)
(* (first), that part type as it was registered (firstPart), and whether   *)
(* the second call has begun.                                              *)
(***************************************************************************)
IdNLdr == <<"n", ".", "l", "d", "r">>

MainNameLines == {FileLine(IdMLdr), FileLine(IdSLdr), NameLine(IdNLdr)}

\* parse(data) is called for the first time
MainParseBegin ==
    /\ trace.op = "init"
    /\ parse' = ParseLocals(LDRStepIdx)
    /\ LDRStepIdx' = LDRStepIdx + 1
    /\ trace' = [op |-> "mainBegin", first |-> FALSE, firstPart |-> Undefined,
                 again |-> FALSE]
    /\ UNCHANGED <<ldrPartTypes, mainModel, unloadedFiles,
                   loadRelatedFilesImmediately, pending, fileLoader, partType,
                   meshCollector>>

\* parse(data) is called for the second time
MainParseAgain ==
    /\ trace.op = "mainEnd"
    /\ ~trace.again
    /\ parse' = ParseLocals(LDRStepIdx)
    /\ LDRStepIdx' = LDRStepIdx + 1
    /\ trace' = [trace EXCEPT !.op = "mainBegin", !.first = FALSE, !.again = TRUE]
    /\ UNCHANGED <<ldrPartTypes, mainModel, unloadedFiles,
                   loadRelatedFilesImmediately, pending, fileLoader, partType,
                   meshCollector>>

MainParsing == trace.op \in {"mainBegin", "mainName", "mainTriangle"}

\* a FILE or Name: line; it is the first ever parsed when mainModel is not set,
\* and the part is registered and a new one made exactly when onProgress is
\* invoked
MainNameLine ==
    /\ MainParsing
    /\ parse.i < MaxLines
    /\ \E line \in MainNameLines :
         LET w == ParseLine(World, line)
             closed == w.out # <<>>
         IN /\ Install(w)
            /\ trace' = [trace EXCEPT
                           !.op = "mainName",
                           !.first = IF mainModel = UndefinedID THEN TRUE
                                     ELSE @ /\ ~closed,
                           !.firstPart =
                               IF trace.first /\ closed
                               THEN w.ldrPartTypes[Key(parse.part.ID)] ELSE @]
    /\ UNCHANGED <<partType, meshCollector>>

MainTriangleLine ==
    /\ MainParsing
    /\ parse.i < MaxLines
    /\ Install(ParseLine(World, Geometry(3, 16, <<PA, PB, PC>>)))
    /\ trace' = [trace EXCEPT !.op = "mainTriangle"]
    /\ UNCHANGED <<partType, meshCollector>>

\* the end of the text
MainParseEnd ==
    /\ MainParsing
    /\ LET w == ParseFinish(World) IN
         /\ Install(w)
         /\ trace' = [trace EXCEPT
                        !.op = "mainEnd",
                        !.firstPart = IF trace.first
                                      THEN w.ldrPartTypes[Key(w.p.part.ID)] ELSE @]
    /\ UNCHANGED <<partType, meshCollector>>

NextMain ==
    \/ MainParseBegin
    \/ MainParseAgain
    \/ MainNameLine
    \/ MainTriangleLine
    \/ MainParseEnd

SpecMain == Init /\ [][NextMain]_vars

\* the part type of the first FILE or Name: line has been registered
FirstRegistered ==
    /\ trace.op \in {"mainBegin", "mainName", "mainTriangle", "mainEnd"}
    /\ trace.firstPart # Undefined

\* C26 as stated: mainModel is set by the first FILE or Name: line ever
\* parsed and changes after that only by the identifier correction of the part
\* type that line has named, and once that part type is registered the entry
\* of the registry under mainModel is that part type, after any sequence of
\* FILE/Name: lines and parse calls.
C26_MainModelIsFirstPartType ==
    /\ [][(mainModel # UndefinedID /\ mainModel' # mainModel) => trace.first]_vars
    /\ [](FirstRegistered =>
              /\ mainModel # UndefinedID
              /\ Lookup(ldrPartTypes, mainModel) = trace.firstPart)

\* mainModel is unset until the first FILE or Name: line, which sets it to its
\* normalised name, and is never unset again
MainModelSetByFirstName ==
    [][/\ (mainModel = UndefinedID /\ trace'.op = "mainName")
           => mainModel' = parse'.part.ID /\ mainModel' # UndefinedID
       /\ (mainModel = UndefinedID /\ trace'.op # "mainName")
           => mainModel' = UndefinedID
       /\ mainModel # UndefinedID => mainModel' # UndefinedID]_vars

(***************************************************************************)
(* SpecRot: one parse call over STEP, ROTSTEP and FILE lines, triangles    *)
(* and placements.  The observation keeps the lines parsed since           *)
(* the part type in progress was started (section, and before for the      *)
(* value it had before the last line), whether the last line has closed    *)
(* the part type, the steps the last line has added to it, and the part    *)
(* type the last line has worked on as it has left it (registered, when    *)
(* the line has closed it).                                                *)
(***************************************************************************)
RotStepRel == Meta(<<"0", "ROTSTEP", "0", "90", "0">>)
RotStepAbs == Meta(<<"0", "ROTSTEP", "45", "0", "0", "abs">>)
RotStepEnd == Meta(<<"0", "ROTSTEP", "END">>)

RotLines ==
    {Meta(<<"0", "STEP">>), RotStepRel, RotStepAbs, RotStepEnd, FileLine(IdNLdr),
     FileLine(IdMLdr), Geometry(3, 16, <<PA, PB, PC>>), SubModelLine(4, IdSLdr),
     SubModelLine(4, IdADat)}

RotParseBegin ==
    /\ trace.op = "init"
    /\ parse' = ParseLocals(LDRStepIdx)
    /\ LDRStepIdx' = LDRStepIdx + 1
    /\ trace' = [op |-> "rotBegin", section |-> <<>>, before |-> <<>>,
                 closed |-> FALSE, added |-> {}, part |-> LDRPartType]
    /\ UNCHANGED <<ldrPartTypes, mainModel, unloadedFiles,
                   loadRelatedFilesImmediately, pending, fileLoader, partType,
                   meshCollector>>

RotParsing == trace.op \in {"rotBegin", "rotLine"}

\* the steps of the sequence later that are not in the sequence earlier
StepsAdded(earlier, later) ==
    {later[k] : k \in {k \in 1..Len(later) :
                          \A j \in 1..Len(earlier) : earlier[j].idx # later[k].idx}}

RotLine ==
    /\ RotParsing
    /\ parse.i < MaxLines
    /\ \E line \in RotLines :
         LET w == ParseLine(World, line)
             closed == line.lineType = 0 /\ w.out # <<>>
             part == IF closed THEN w.ldrPartTypes[Key(parse.part.ID)]
                     ELSE w.p.part
         IN /\ Install(w)
            /\ trace' = [op |-> "rotLine",
                         section |-> IF closed THEN <<>>
                                     ELSE Append(trace.section, line),
                         before |-> trace.section,
                         closed |-> closed,
                         added |-> StepsAdded(parse.part.steps, part.steps),
                         part |-> part]
    /\ UNCHANGED <<partType, meshCollector>>

RotParseEnd ==
    /\ RotParsing
    /\ LET w == ParseFinish(World) IN
         /\ Install(w)
         /\ trace' = [op |-> "rotEnd", section |-> trace.section,
                      before |-> trace.section, closed |-> FALSE,
                      added |-> StepsAdded(parse.part.steps, w.p.part.steps),
                      part |-> w.p.part]
    /\ UNCHANGED <<partType, meshCollector>>

NextRot ==
    \/ RotParseBegin
    \/ RotLine
    \/ RotParseEnd

SpecRot == Init /\ [][NextRot]_vars

\* the directive a ROTSTEP line sets
DirectiveOf(line) ==
    CASE line = RotStepRel ->
           [isNull |-> FALSE, x |-> 0, y |-> 90, z |-> 0, type |-> "REL"]
      [] line = RotStepAbs ->
           [isNull |-> FALSE, x |-> 45, y |-> 0, z |-> 0, type |-> "ABS"]
      [] OTHER -> NullRotation

\* the directive in force after the lines of a section: the one of the last
\* ROTSTEP line among them, null if there is none
RECURSIVE Directive(_)
Directive(lines) ==
    IF lines = <<>> THEN NullRotation
    ELSE IF Last(lines) \in {RotStepRel, RotStepAbs, RotStepEnd}
    THEN DirectiveOf(Last(lines))
    ELSE Directive(SubSeq(lines, 1, Len(lines) - 1))

FileLoadedEnabled ==
    /\ Loading
    /\ \E id \in pending \ fileLoader.failed : FilesOf(id) # {}

DeliveriesEnd == <>[][fileLoader'.delivered = fileLoader.delivered]_vars

SpecLive == Init /\ [][NextLoad]_vars /\ []<>~FileLoadedEnabled

\* the last operation was a load call that handed a retrieval to the
\* FileLoader: it has invoked no callback
RetrievalRequested == trace.op = "load" /\ trace.out = <<>>

OnLoadInvoked == OnLoadCalls # {}

SomeRetrievalFailed == fileLoader.failed # {}

\* C28: with every retrieval that does not fail delivered in the end, a load
\* call for an identifier without entry leads to an invocation of onLoad
\* unless a retrieval fails; and once a retrieval has failed unloadedFiles
\* stays above zero and onLoad is not invoked any more.
C28_LoadLeadsToOnLoad ==
    /\ RetrievalRequested ~> (OnLoadInvoked \/ SomeRetrievalFailed)
    /\ [](SomeRetrievalFailed => (unloadedFiles > 0 /\ ~OnLoadInvoked))

\* the delivery that invokes onLoad after retrievals the parse calls have
\* requested themselves, none having failed
C28_Witness ==
    /\ trace.op = "fileLoaded"
    /\ OnLoadInvoked
    /\ ~SomeRetrievalFailed
    /\ loadRelatedFilesImmediately
    /\ fileLoader.delivered = 3
    /\ BagCardinality(fileLoader.loads) = 3

(***************************************************************************)
(* SpecUse: the calls of a user of the loader in any order: load calls,    *)
(* parse calls with a text of the user, and the answers of the FileLoader. *)
(* The observation keeps the history the loader does not store: the        *)
(* targets of the placement lines parsed so far that do not end in .ldr,   *)
(* the names of the FILE and Name: lines parsed so far, the identifiers    *)
(* whose file was delivered, the number of parse calls of the user, and    *)
(* for every invocation of onLoad by the last call what the loader was     *)
(* like at that moment.                                                    *)
(***************************************************************************)
MaxParses == 2      \* parse calls of the user on one loader

UseLoadArgs == {<<IdMLdr, TRUE>>, <<IdADat, FALSE>>}

UseTexts ==
    {<<FileLine(IdMLdr), SubModelLine(16, IdADat), SubModelLine(4, IdBDat)>>,
     <<SubModelLine(16, IdSLdr), SubModelLine(4, IdADat)>>,
     <<NameLine(IdADat), Triangle>>,
     <<NameLine(IdBDat), SubModelLine(16, IdADat), FileLine(IdSLdr)>>}

History ==
    IF trace.op = "init"
    THEN [targets |-> {}, names |-> {}, delivered |-> {}, parses |-> 0]
    ELSE trace.history

\* the targets of the placement lines of a text that do not end in .ldr
TargetsOf(lines) ==
    {ToLowerCase(lines[k].subModelID) :
        k \in {k \in 1..Len(lines) :
                 /\ lines[k].lineType = 1
                 /\ ~EndsWith(ToLowerCase(lines[k].subModelID), DotLdr)}}

\* the names of the FILE and Name: lines of a text
NamesOf(lines) ==
    {Normalized(lines[k].text) :
        k \in {k \in 1..Len(lines) :
                 /\ lines[k].lineType = 0
                 /\ Len(lines[k].parts) >= 3
                 /\ lines[k].parts[2] \in {"FILE", "file", "Name:"}}}

\* the loader inside parse(text) after k lines
AfterLines(w, text, k) ==
    ParseLines([w EXCEPT !.LDRStepIdx = @ + 1, !.p = ParseLocals(w.LDRStepIdx)],
               SubSeq(text, 1, k))

\* the lines of the text whose handling invokes onLoad
LinesInvokingOnLoad(w, text) ==
    {k \in 1..Len(text) :
        \E j \in (Len(AfterLines(w, text, k - 1).out) + 1)
                    ..Len(AfterLines(w, text, k).out) :
            AfterLines(w, text, k).out[j].cb = "onLoad"}

\* the loader w at an invocation of onLoad
AtOnLoad(w, targets, delivered) ==
    [targets |-> targets, delivered |-> delivered, pending |-> w.pending,
     registered |-> {k \in DOMAIN w.ldrPartTypes : IsPartType(w.ldrPartTypes[k])}]

\* the invocations of onLoad inside parse(text)
OnLoadsInParse(w, text, h) ==
    {AtOnLoad(AfterLines(w, text, k),
              h.targets \cup TargetsOf(SubSeq(text, 1, k)), h.delivered) :
        k \in LinesInvokingOnLoad(w, text)}

\* the invocation of onLoad by the reportProgress call that ends a call
OnLoadAtEnd(w, h) ==
    IF w.out # <<>> /\ Last(w.out).cb = "onLoad"
    THEN {AtOnLoad(w, h.targets, h.delivered)} ELSE {}

\* loader.load(id, top)
UseLoad ==
    /\ \E args \in UseLoadArgs :
         /\ Seen(args[1], args[2]) \/ BagCardinality(fileLoader.loads) < MaxFiles
         /\ LET w == load(World, args[1], args[2]) IN
              /\ Install(w)
              /\ trace' = [op |-> "load", out |-> w.out, history |-> History,
                           onLoads |-> OnLoadAtEnd(w, History)]
    /\ UNCHANGED <<partType, meshCollector>>

\* loader.parse(text), called by the user
UseParse ==
    /\ History.parses < MaxParses
    /\ \E text \in UseTexts :
         LET w == [Parse(World, text) EXCEPT !.p = IdleParse]
             h == [History EXCEPT !.targets = @ \cup TargetsOf(text),
                                  !.names = @ \cup NamesOf(text),
                                  !.parses = @ + 1]
         IN /\ Install(w)
            /\ trace' = [op |-> "parse", out |-> w.out, history |-> h,
                         onLoads |-> OnLoadsInParse(World, text, History)]
    /\ UNCHANGED <<partType, meshCollector>>

\* onFileLoaded(text), the callback of loader.load for the file id
UseFileLoaded ==
    /\ \E id \in pending \ fileLoader.failed : \E text \in FilesOf(id) :
         LET w1 == Parse(World, text)
             w2 == [w1 EXCEPT !.unloadedFiles = @ - 1, !.pending = @ \ {id},
                              !.fileLoader.delivered = @ + 1,
                              !.p = IdleParse]
             w3 == reportProgress(w2, id)
             h == [History EXCEPT !.targets = @ \cup TargetsOf(text),
                                  !.names = @ \cup NamesOf(text),
                                  !.delivered = @ \cup {id}]
         IN /\ Install(w3)
            /\ trace' = [op |-> "fileLoaded", out |-> w3.out, history |-> h,
                         onLoads |-> OnLoadsInParse(World, text, History)
                                       \cup OnLoadAtEnd(w3, h)]
    /\ UNCHANGED <<partType, meshCollector>>

\* the FileLoader answers the retrieval of the file id through onError
UseFileFailed ==
    /\ \E id \in pending \ fileLoader.failed :
         /\ fileLoader' = [fileLoader EXCEPT !.failed = @ \cup {id}]
         /\ trace' = [op |-> "fileFailed",
                      out |-> <<[cb |-> "onError", what |-> "load"]>>,
                      history |-> History, onLoads |-> {}]
    /\ UNCHANGED <<ldrPartTypes, mainModel, unloadedFiles,
                   loadRelatedFilesImmediately, pending, LDRStepIdx, parse,
                   partType, meshCollector>>

NextUse ==
    \/ UseLoad
    \/ UseParse
    \/ UseFileLoaded
    \/ UseFileFailed

SpecUse == Init /\ [][NextUse]_vars

\* the invocations of onLoad by the last call
OnLoads == IF trace.op = "init" THEN {} ELSE trace.onLoads

\* the target is not outstanding, and its file was delivered and parsed or a
\* section of a text parsed before has declared it
Handled(at, id) ==
    /\ id \notin at.pending
    /\ id \in at.delivered \/ id \in at.registered

\* C29: with loadRelatedFilesImmediately set, at every invocation of onLoad
\* every target of a placement line parsed so far that does not end in .ldr
\* is not outstanding: its file was delivered and parsed (or a section parsed
\* before has declared it).
C29_RelatedFilesHandled ==
    loadRelatedFilesImmediately =>
        \A at \in OnLoads : \A id \in at.targets : Handled(at, id)

\* a delivery invokes onLoad when three files have been delivered, the files
\* of at least two targets of placement lines among them
C29_Witness ==
    /\ loadRelatedFilesImmediately
    /\ trace.op = "fileLoaded"
    /\ \E at \in OnLoads :
           /\ Cardinality(at.targets) >= 2
           /\ at.targets \subseteq at.delivered
    /\ fileLoader.delivered = 3

(***************************************************************************)
(* Claims about the registry (SpecUse).                                    *)
(***************************************************************************)
PartTypeKeys == {k \in DOMAIN ldrPartTypes : IsPartType(ldrPartTypes[k])}

\* C30: after any sequence of load and parse calls every part type of the
\* registry is stored under the key equal to its own ID, the ID is a normalized
\* identifier and not null, and it is the name of a FILE/Name: line parsed or
\* the identifier of a file delivered.
C30_RegistryConsistent ==
    \A k \in PartTypeKeys :
        /\ ldrPartTypes[k].ID # NullID
        /\ ldrPartTypes[k].ID = k
        /\ Normalized(ldrPartTypes[k].ID) = ldrPartTypes[k].ID
        /\ ldrPartTypes[k].ID \in History.names \cup History.delivered

\* what the code keeps: a part type is stored under the key its ID gives, and
\* its ID is null or the normalized name of a FILE/Name: line parsed
RegisteredUnderKeyOfID ==
    \A k \in PartTypeKeys :
        /\ k = Key(ldrPartTypes[k].ID)
        /\ \/ ldrPartTypes[k].ID = NullID
           \/ /\ Normalized(ldrPartTypes[k].ID) = ldrPartTypes[k].ID
              /\ ldrPartTypes[k].ID \in History.names

\* a part type without ID is registered by a parse call whose text begins
\* with a FILE or Name: line, after an earlier call has set mainModel
NullRegisteredBeforeNamedSection ==
    /\ Has(ldrPartTypes, NullID)
    /\ ldrPartTypes[Key(NullID)].steps = <<>>
    /\ History.names # {}
    /\ History.targets = {}

(***************************************************************************)
(* SpecGeo: the parse calls of SpecMain, texts of FILE and Name: lines and *)
(* triangles, so models that hold geometry themselves; then the main model *)
(* is flattened into a new mesh collector.                                 *)
(***************************************************************************)
\* loader.ldrPartTypes[loader.mainModel].generateThreePart(loader, 4, origin,
\*     identity, true, false, new THREE.LDRMeshCollector()), after parse returned
GeoFlattenCall ==
    /\ trace.op = "mainEnd"
    /\ IsPartType(Lookup(ldrPartTypes, mainModel))
    /\ LET f == PartTypeGenerateThreePart(ldrPartTypes,
                    Lookup(ldrPartTypes, mainModel), 4, PA, Identity, TRUE, FALSE,
                    Start(LDRMeshCollector), FALSE, 0)
       IN /\ meshCollector' = f.mc
          /\ trace' = [op |-> "flatten", root |-> Key(mainModel), log |-> f.log,
                       error |-> f.error]
    /\ UNCHANGED <<ldrPartTypes, mainModel, unloadedFiles,
                   loadRelatedFilesImmediately, pending, fileLoader, LDRStepIdx,
                   parse, partType>>

NextGeo ==
    \/ MainParseBegin
    \/ MainParseAgain
    \/ MainNameLine
    \/ MainTriangleLine
    \/ MainParseEnd
    \/ GeoFlattenCall

SpecGeo == Init /\ [][NextGeo]_vars

\* the index buffers of the mesh collector hold no slot a bake has yet to fill
AllSlotsResolved(mc) ==
    \A buffers \in {mc.triangleIndices, mc.lineIndices, mc.conditionalLineIndices} :
        \A c \in DOMAIN buffers : \A k \in 1..Len(buffers[c]) : buffers[c][k] # -1

\* the flattening call on a model, no leaf, has returned without exception
ModelFlattened ==
    /\ trace.op = "flatten"
    /\ trace.error = "none"
    /\ ~EndsWith(trace.root, Dat)

\* C31: when a flattening call on a model that is no leaf returns normally, the
\* mesh collector holds no unbaked vertices and every slot of its index buffers
\* has been resolved by a bake.
C31_NothingUnbaked ==
    ModelFlattened =>
        /\ meshCollector.unbakedVertices = <<>>
        /\ AllSlotsResolved(meshCollector)

\* the position of the last bakeVertices call in the log, 0 without one
LastBake ==
    LET bakes == {k \in 1..Len(trace.log) : trace.log[k].call = "bakeVertices"}
    IN IF bakes = {} THEN 0 ELSE CHOOSE k \in bakes : \A j \in bakes : j <= k

RECURSIVE PointsAdded(_, _)
PointsAdded(log, k) ==
    IF k > Len(log) THEN <<>>
    ELSE (IF log[k].call \in {"addLine", "addTriangle", "addConditionalLine"}
          THEN log[k].pts ELSE <<>>) \o PointsAdded(log, k + 1)

\* what the code keeps: the unbaked vertices after the call are the points of
\* the add calls that follow the last bake, in order; so a model is baked
\* as a whole when the last thing its last step holds is the placement of a
\* leaf
UnbakedFollowLastBake ==
    ModelFlattened =>
        /\ Len(meshCollector.unbakedVertices)
               = Len(PointsAdded(trace.log, LastBake + 1))
        /\ AllSlotsResolved(meshCollector)
               <=> PointsAdded(trace.log, LastBake + 1) = <<>>

\* a model with a triangle of its own is flattened: the triangle is added and
\* no bake follows
TriangleOfModelUnbaked ==
    /\ ModelFlattened
    /\ \E k \in 1..Len(trace.log) : trace.log[k].call = "addTriangle"
    /\ \A k \in 1..Len(trace.log) : trace.log[k].call # "bakeVertices"
    /\ meshCollector.unbakedVertices # <<>>
    /\ ~AllSlotsResolved(meshCollector)

(***************************************************************************)
(* Claims about the placements of a section (SpecRot).                     *)
(***************************************************************************)
\* the last line has ended a section: the end of the text, or a FILE line that
\* has registered the part type in progress and started another
SectionEnded == trace.op = "rotEnd" \/ (trace.op = "rotLine" /\ trace.closed)

\* the lines of the section that has ended
SectionLines == IF trace.op = "rotEnd" THEN trace.section ELSE trace.before

\* the part type of the section that has ended, as the registry holds it
SectionPartType == Lookup(ldrPartTypes, trace.part.ID)

IsPlacementOf(line, colorID, id) ==
    line.lineType = 1 /\ line.colorID = colorID /\ ToLowerCase(line.subModelID) = id

\* the number of type-1 lines with the colour and the target among the lines
CountLines(lines, colorID, id) ==
    Cardinality({k \in 1..Len(lines) : IsPlacementOf(lines[k], colorID, id)})

\* the number of placements with the colour and the target in the steps of
\* the part type, each counted in every step that holds it
CountStored(pt, colorID, id) ==
    Cardinality({<<k, j>> \in (1..Len(pt.steps)) \X (1..MaxLines + 1) :
                    /\ j <= Len(pt.steps[k].ldrs \o pt.steps[k].dats)
                    /\ (pt.steps[k].ldrs \o pt.steps[k].dats)[j].colorID = colorID
                    /\ (pt.steps[k].ldrs \o pt.steps[k].dats)[j].ID = id})

PlacementPairs == {<<4, IdSLdr>>, <<4, IdADat>>}

\* C32: when a section has ended, every type-1 line of it, deferred or
\* immediate, is in exactly one step of the registered part type of the
\* section, the deferred placements after its last STEP/ROTSTEP line too.
C32_NoPlacementLost ==
    SectionEnded =>
        /\ IsPartType(SectionPartType)
        /\ \A pair \in PlacementPairs :
               CountStored(SectionPartType, pair[1], pair[2])
                   = CountLines(SectionLines, pair[1], pair[2])

\* the lines of a section after its last STEP or ROTSTEP line
RECURSIVE AfterLastStepLine(_)
AfterLastStepLine(lines) ==
    IF lines = <<>> THEN <<>>
    ELSE IF Last(lines) \in {Meta(<<"0", "STEP">>), RotStepRel, RotStepAbs, RotStepEnd}
    THEN <<>>
    ELSE Append(AfterLastStepLine(SubSeq(lines, 1, Len(lines) - 1)), Last(lines))

\* what the code keeps: a section a FILE line has ended has all its placements
\* stored once; at the end of the text the immediate placements are stored
\* once, and of the deferred ones those before the last STEP/ROTSTEP line
PlacementsLostAtEndOnly ==
    SectionEnded =>
        /\ IsPartType(SectionPartType)
        /\ CountStored(SectionPartType, 4, IdADat) = CountLines(SectionLines, 4, IdADat)
        /\ CountStored(SectionPartType, 4, IdSLdr)
              = CountLines(SectionLines, 4, IdSLdr)
                - (IF trace.op = "rotEnd"
                   THEN CountLines(AfterLastStepLine(SectionLines), 4, IdSLdr)
                   ELSE 0)

\* the text ends after a deferred placement that follows the STEP line of a
\* section with an immediate placement: the registered part type holds the
\* immediate placement alone
DeferredPlacementLostAtEnd ==
    /\ trace.op = "rotEnd"
    /\ trace.section = <<SubModelLine(4, IdADat), Meta(<<"0", "STEP">>),
                         SubModelLine(4, IdSLdr)>>
    /\ CountStored(SectionPartType, 4, IdADat) = 1
    /\ CountStored(SectionPartType, 4, IdSLdr) = 0

(***************************************************************************)
(* SpecDesc: one parse call over FILE lines, comments, Author: lines, BFC   *)
(* lines and triangles.  The observation keeps the comments parsed since   *)
(* the part type in progress was made (own): by the parse call, or by the  *)
(* FILE line that has registered the part type before it; the last line,   *)
(* the BFC parameters before it, and for a FILE line what it has done:     *)
(* found the name of the part type in progress (consistent), named the     *)
(* first model (first), changed the name of the empty main model (change)  *)
(* or registered the part type in progress and made a new one (new).       *)
(***************************************************************************)
MaxDescLines == 6   \* lines consumed by one parse call on descriptions

SomeComment == Meta(<<"0", "some", "comment">>)

DescLines ==
    {FileLine(IdMLdr), FileLine(IdSLdr), SomeComment, MovedToLine(<<"c">>),
     AuthorLine, Triangle, InvertNext, NoClip, Meta(<<"0", "BFC", "CW">>)}

\* the pending comment as parse records it for a comment line
CommentOf(line) == [parts |-> Tail(line.parts), text |-> line.text]

IsComment(line) == line \in {SomeComment, MovedToLine(<<"c">>)}

DescParseBegin ==
    /\ trace.op = "init"
    /\ parse' = ParseLocals(LDRStepIdx)
    /\ LDRStepIdx' = LDRStepIdx + 1
    /\ trace' = [op |-> "descBegin", own |-> {}, started |-> FALSE,
                 line |-> SomeComment, before |-> BFCState(ParseLocals(LDRStepIdx)),
                 boundary |-> "none"]
    /\ UNCHANGED <<ldrPartTypes, mainModel, unloadedFiles,
                   loadRelatedFilesImmediately, pending, fileLoader, partType,
                   meshCollector>>

DescParsing == trace.op \in {"descBegin", "descLine"}

\* one line; a FILE line that invokes onProgress has registered the part type
\* in progress and made a new one
DescLine ==
    /\ DescParsing
    /\ parse.i < MaxDescLines
    /\ \E line \in DescLines :
         LET w == ParseLine(World, line)
             started == \E j \in 1..Len(w.out) : w.out[j].cb = "onProgress"
         IN /\ Install(w)
            /\ trace' = [op |-> "descLine",
                         own |-> IF started THEN {}
                                 ELSE IF IsComment(line)
                                 THEN trace.own \cup {w.p.previousComment}
                                 ELSE trace.own,
                         started |-> trace.started \/ started,
                         line |-> line,
                         before |-> BFCState(parse),
                         boundary |->
                             IF line \notin {FileLine(IdMLdr), FileLine(IdSLdr)}
                             THEN "none"
                             ELSE IF started THEN "new"
                             ELSE IF w.p.part.ID = parse.part.ID THEN "consistent"
                             ELSE IF mainModel = UndefinedID THEN "first"
                             ELSE "change"]
    /\ UNCHANGED <<partType, meshCollector>>

DescParseEnd ==
    /\ DescParsing
    /\ Install(ParseFinish(World))
    /\ trace' = [trace EXCEPT !.op = "descEnd"]
    /\ UNCHANGED <<partType, meshCollector>>

NextDesc ==
    \/ DescParseBegin
    \/ DescLine
    \/ DescParseEnd

SpecDesc == Init /\ [][NextDesc]_vars

\* the replacement setModelDescription derives from a "~Moved to" comment
ReplacementOf(comment) ==
    IF EndsWith(ToLowerCase(comment.text), DotDat) THEN ToLowerCase(comment.text)
    ELSE ToLowerCase(comment.text) \o DotDat

\* C33: the description of the part type in progress is a comment parsed since
\* this part type was made, and its replacement is derived from such a
\* "~Moved to" comment: a comment recorded while another part type was
\* current is never assigned to it.
C33_DescriptionFromOwnSection ==
    trace.op \in {"descLine", "descEnd"} =>
        /\ parse.part.modelDescription # Undefined
              => parse.part.modelDescription \in trace.own
        /\ parse.part.replacement # UndefinedID
              => \E c \in trace.own :
                     MovedTo(c) /\ parse.part.replacement = ReplacementOf(c)

\* what the code keeps: the description of a part type is a comment of the
\* text, the one pending at the FILE or Author: line that set it, and a
\* replacement comes with a "~Moved to" description
DescriptionIsSomeComment ==
    trace.op \in {"descLine", "descEnd"} =>
        /\ parse.part.modelDescription # Undefined
              => parse.part.modelDescription
                     \in {CommentOf(SomeComment), CommentOf(MovedToLine(<<"c">>))}
        /\ parse.part.replacement # UndefinedID
              => /\ parse.part.modelDescription = CommentOf(MovedToLine(<<"c">>))
                 /\ parse.part.replacement
                        = ReplacementOf(parse.part.modelDescription)

\* a part type a FILE line has started gets a "~Moved to" comment of the
\* section before it as its description, and the replacement with it, while no
\* comment has been parsed since it was made
DescriptionFromSectionBefore ==
    /\ trace.op = "descLine"
    /\ trace.started
    /\ trace.own = {}
    /\ parse.part.ID = IdSLdr
    /\ parse.part.modelDescription = CommentOf(MovedToLine(<<"c">>))
    /\ parse.part.replacement = <<"c">> \o DotDat

(***************************************************************************)
(* Claims about the BFC parameters at a FILE line (SpecDesc).              *)
(***************************************************************************)
FileLineParsed == trace.op = "descLine" /\ trace.boundary # "none"

\* C34: within one parse call CCW, invertNext and localCull after a FILE/Name:
\* line are what they were before it, in each of the four cases of
\* handlePotentialFileStart; so the first geometry line of a part type a FILE
\* line has started is read under the parameters the part type before it has
\* left.
C34_FileLineKeepsBFC == FileLineParsed => BFCState(parse) = trace.before

\* a FILE line registers the part type in progress and starts a new one while
\* the winding is CW and INVERTNEXT and NOCLIP are in force, and they stay
C34_Witness ==
    /\ FileLineParsed
    /\ trace.boundary = "new"
    /\ trace.before = [CCW |-> FALSE, invertNext |-> TRUE, localCull |-> FALSE]
    /\ BFCState(parse) = trace.before

\* the case of handlePotentialFileStart taken by a FILE line while INVERTNEXT
\* is in force
ConsistentCaseTaken ==
    FileLineParsed /\ trace.boundary = "consistent" /\ trace.before.invertNext

FirstCaseTaken ==
    FileLineParsed /\ trace.boundary = "first" /\ trace.before.invertNext

ChangeCaseTaken ==
    FileLineParsed /\ trace.boundary = "change" /\ trace.before.invertNext

====
